---- MODULE Spec2Model ----
(***************************************************************************)
(* A model of the WGSL lowering pass of naga                               *)
(* (third_party/rust/naga/src/front/wgsl/lower/mod.rs).                    *)
(*                                                                         *)
(* The specifications share the variables below:                           *)
(*   Spec        lowering of one function body, statement by statement     *)
(*               (Lowerer::function, Lowerer::block, Lowerer::statement),  *)
(*   SpecStmt    the same over bodies of assignments, calls and returns,   *)
(*   SpecStruct  struct member layout (Lowerer::struct),                   *)
(*   SpecLower   the driver loop over the declarations (Lowerer::lower),   *)
(*   SpecSwitch  switch statements (Lowerer::statement, Switch),           *)
(*   SpecCall    calls of functions, types and built-ins (Lowerer::call),  *)
(*   SpecContext the contexts derived by as_const, as_global, ...,         *)
(*   SpecEmit    statements with operands (the Emit before a statement),   *)
(*   SpecInit    local declarations (Lowerer::type_and_init),              *)
(*   SpecEntry   array lengths and workgroup sizes over overrides,         *)
(*   SpecAccess  `&`, `*`, `.`, `[]`, binary operators, `++` and `--`,     *)
(*               and assignments to what is no reference,                  *)
(*   SpecConst   const and let declarations and indices that name them,    *)
(*   SpecDispatch the built-ins that push a statement (atomics, ray        *)
(*               queries) and calls of user functions,                     *)
(*   SpecGlobals the globals map of Lowerer::lower over functions that     *)
(*               call functions.                                           *)
(*                                                                         *)
(* Handles are 1-based indices into sequences (arenas).  A type handle is  *)
(* represented by the type it denotes (the type arena is a unique arena).  *)
(***************************************************************************)
EXTENDS Integers, Sequences, FiniteSets, TLC

VARIABLES
    \* ---- Spec: the function under construction (Lowerer::function) ----
    pc,                             \* "arguments" | "lowering" | "done" | "error"
    error,                          \* the Error returned, "none" while Ok
    globals,                        \* name -> LoweredGlobalDecl
    module,                         \* crate::Module (the arenas the body reads)
    arguments,                      \* function.arguments: their types
    result,                         \* function.result: its type, or NoType
    expressions,                    \* function.expressions (arena)
    local_variables,                \* function.local_variables (arena)
    named_expressions,              \* FastIndexMap handle -> name, in insertion order
    local_table,                    \* ast::Local handle -> Declared<Typed<Handle>>
    local_expression_kind_tracker,  \* ExpressionKindTracker of the function
    frames,                         \* the blocks being filled; the last is the current one
    ast_locals,                     \* the ast::Local arena: the declaration of each local
    visible,                        \* the locals in scope for the next statement
    nstmts,                         \* statements lowered so far
    lookups,                        \* identifier lookups done by the last statement
    global_expression_kind_tracker, \* ExpressionKindTracker of module.global_expressions
    limit,                          \* the number of statements of the body
    \* ---- SpecStruct ----
    st,
    \* ---- SpecLower ----
    lw

vars == <<pc, error, globals, module, arguments, result, expressions,
          local_variables, named_expressions, local_table,
          local_expression_kind_tracker, frames, ast_locals, visible,
          nstmts, lookups, global_expression_kind_tracker, st, lw, limit>>

fnvars == <<pc, error, globals, module, arguments, result, expressions,
            local_variables, named_expressions, local_table,
            local_expression_kind_tracker, frames, ast_locals, visible,
            nstmts, lookups, global_expression_kind_tracker, limit>>

(***************************************************************************)
(* Bounds of the model.                                                    *)
(***************************************************************************)
\* The statements of a body of declarations and compound statements.
MaxStmts == 3

\* The statements of a body of assignments, calls and returns.
MaxWrites == 2

(***************************************************************************)
(* Types.  [k, s, p]: kind, leaf scalar, and whether the type is the value *)
(* itself ("val"), a Pointer to it ("ptr") or a ValuePointer ("vptr").     *)
(***************************************************************************)
NoType == [k |-> "None", s |-> "", p |-> "val"]
Scalar(s) == [k |-> "Scalar", s |-> s, p |-> "val"]
Vector(s) == [k |-> "Vector", s |-> s, p |-> "val"]
Pointer(base) == [base EXCEPT !.p = "ptr"]

is_abstract(ty) == ty.s \in {"abstract-int", "abstract-float"}

pointer_space_is_some(ty) == ty.p \in {"ptr", "vptr"}

Scalar_concretize(s) ==
    CASE s = "abstract-int" -> "i32"
      [] s = "abstract-float" -> "f32"
      [] OTHER -> s

(***************************************************************************)
(* The module as lowered before the function: one override N, the private  *)
(* global variables g: vec3<f32> and n: i32, one handle-space global tex   *)
(* and one function callee(i32) -> i32.                                    *)
(***************************************************************************)
PreludeModule ==
    [ types |-> << Scalar("i32"), Vector("f32"),
                   [k |-> "Image", s |-> "f32", p |-> "val"] >>,
      global_expressions |-> << >>,
      constants |-> << >>,
      overrides |-> << [name |-> "N", ty |-> Scalar("i32"), init |-> 0] >>,
      global_variables |-> << [name |-> "g", space |-> "Private", ty |-> Vector("f32"),
                               init |-> 0],
                              [name |-> "tex", space |-> "Handle",
                               ty |-> [k |-> "Image", s |-> "f32", p |-> "val"], init |-> 0],
                              [name |-> "n", space |-> "Private", ty |-> Scalar("i32"),
                               init |-> 0] >>,
      functions |-> << [name |-> "callee", arguments |-> << Scalar("i32") >>,
                        result |-> Scalar("i32"), local_variables |-> << >>,
                        expressions |-> << [k |-> "FunctionArgument", i |-> 0] >>,
                        named_expressions |-> << [key |-> 1, name |-> 1] >>,
                        body |-> << [k |-> "Return", value |-> 1] >>] >> ]

PreludeGlobals ==
    [ N |-> [k |-> "Override", h |-> 1],
      g |-> [k |-> "Var", h |-> 1],
      tex |-> [k |-> "Var", h |-> 2],
      n |-> [k |-> "Var", h |-> 3],
      callee |-> [k |-> "Function", h |-> 1, must_use |-> FALSE] ]

(***************************************************************************)
(* proc::Emitter: a window over the function's expression arena.           *)
(***************************************************************************)
NotStarted == 0 - 1

Emit(first, last) == [k |-> "Emit", first |-> first, last |-> last]

\* Emitter::start: records the arena length; panics when already started.
Emitter_start(c) ==
    IF c.emitter # NotStarted
    THEN [c EXCEPT !.err = "panic: Emitting has already started!"]
    ELSE [c EXCEPT !.emitter = Len(c.expressions)]

\* Emitter::finish followed by Block::extend: the Emit statement, when the
\* window is not empty, goes to the end of the current block.
Emitter_finish(c) ==
    IF c.emitter = NotStarted
    THEN [c EXCEPT !.err = "panic: finish without start"]
    ELSE [c EXCEPT !.emitter = NotStarted,
                   !.block = IF c.emitter # Len(c.expressions)
                             THEN Append(c.block, Emit(c.emitter + 1, Len(c.expressions)))
                             ELSE c.block]

(***************************************************************************)
(* The arena and the tracker an expression context appends to:             *)
(* the function's for Runtime and Constant(Some(local)), the module's      *)
(* global_expressions for Constant(None) and Override.                     *)
(***************************************************************************)
HasLocalCtx(c) == c.expr_type \in {"Runtime", "ConstantLocal"}

Arena(c) == IF HasLocalCtx(c) THEN c.expressions ELSE c.global_expressions

Tracker(c) == IF HasLocalCtx(c) THEN c.kinds ELSE c.global_kinds

(***************************************************************************)
(* proc::ExpressionKindTracker                                             *)
(***************************************************************************)
KindMax(a, b) ==
    IF "Runtime" \in {a, b} THEN "Runtime"
    ELSE IF "Override" \in {a, b} THEN "Override" ELSE "Const"

\* ExpressionKindTracker::type_of_with_expr
type_of_with_expr(tracker, expr) ==
    CASE expr.k \in {"Literal", "Constant", "ZeroValue"} -> "Const"
      [] expr.k = "Override" -> "Override"
      [] expr.k = "AccessIndex" -> tracker[expr.base]
      [] expr.k = "Access" -> KindMax(tracker[expr.base], tracker[expr.index])
      [] expr.k = "As" -> tracker[expr.expr]
      [] expr.k = "Math" -> tracker[expr.arg]
      [] expr.k = "Splat" -> tracker[expr.value]
      [] expr.k = "Swizzle" -> tracker[expr.vector]
      [] expr.k = "Binary" -> KindMax(tracker[expr.left], tracker[expr.right])
      [] OTHER -> "Runtime"

\* ExpressionKindTracker::is_const / is_const_or_override
is_const(tracker, h) == tracker[h] = "Const"

is_const_or_override(tracker, h) == tracker[h] \in {"Const", "Override"}

\* ExpressionKindTracker::force_non_const
force_non_const(tracker, h) == [tracker EXCEPT ![h] = "Runtime"]

\* Expression::needs_pre_emit
needs_pre_emit(expr) ==
    expr.k \in {"Literal", "Constant", "Override", "ZeroValue", "FunctionArgument",
                "GlobalVariable", "LocalVariable"}

(***************************************************************************)
(* Typifier: the type of an expression of the context's arena.             *)
(***************************************************************************)
RECURSIVE TypeOf(_, _, _)
\* The type of one expression whose operands are in the arena.
TypeOfExpression(c, arena, e) ==
    CASE e.k = "Literal" -> Scalar(e.ty)
      [] e.k = "Constant" -> c.constants[e.h].ty
      [] e.k = "Override" -> c.overrides[e.h].ty
      [] e.k = "GlobalVariable" ->
            IF module.global_variables[e.h].space = "Handle"
            THEN module.global_variables[e.h].ty
            ELSE Pointer(module.global_variables[e.h].ty)
      [] e.k = "FunctionArgument" -> c.arguments[e.i + 1]
      [] e.k = "LocalVariable" -> Pointer(c.local_variables[e.h].ty)
      [] e.k = "Load" -> [TypeOf(c, arena, e.pointer) EXCEPT !.p = "val"]
      [] e.k \in {"AccessIndex", "Access"} ->
            [k |-> "Scalar", s |-> TypeOf(c, arena, e.base).s,
             p |-> IF TypeOf(c, arena, e.base).p = "val" THEN "val" ELSE "vptr"]
      [] e.k = "Binary" -> TypeOf(c, arena, e.left)
      [] e.k = "Splat" -> Vector(TypeOf(c, arena, e.value).s)
      [] e.k = "Swizzle" -> Vector(TypeOf(c, arena, e.vector).s)
      [] e.k = "CallResult" -> module.functions[e.function].result
      [] e.k = "AtomicResult" -> e.ty
      [] e.k = "RayQueryProceedResult" -> Scalar("bool")
      [] e.k = "Math" -> TypeOf(c, arena, e.arg)
      [] e.k = "As" -> [TypeOf(c, arena, e.expr) EXCEPT !.s = e.to]
      [] e.k = "ZeroValue" -> e.ty
      [] OTHER -> NoType

TypeOf(c, arena, h) == TypeOfExpression(c, arena, arena[h])

resolve_inner(c, h) == TypeOf(c, Arena(c), h)

(***************************************************************************)
(* proc::ConstantEvaluator, as the lowering pass uses it.                  *)
(***************************************************************************)
Ok(c) == c.err = "none"

Fail(c, e) == [c EXCEPT !.err = e]

\* Arena::append on the function's arena.
arena_append(c, expr) == [c EXCEPT !.expressions = Append(@, expr)]

\* ExpressionKindTracker::insert for the handle just appended: it asserts that
\* the handle is the next one of the tracker.
tracker_insert(c, kind) ==
    IF Len(c.kinds) + 1 # Len(c.expressions)
    THEN Fail(c, "panic: tracker insert out of order")
    ELSE [c EXCEPT !.kinds = Append(@, kind), !.h = Len(c.expressions), !.ref = FALSE]

\* ConstantEvaluator::append_expr: append to the context's arena and record
\* the kind; in a Runtime context an expression that needs_pre_emit interrupts
\* a running emitter.  ExpressionKindTracker::insert asserts that the handle
\* is the next one of the tracker.
append_expr(c, expr, kind) ==
    IF ~HasLocalCtx(c)
    THEN IF Len(c.global_kinds) # Len(c.global_expressions)
         THEN Fail(c, "panic: tracker insert out of order")
         ELSE [c EXCEPT !.global_expressions = Append(@, expr),
                        !.global_kinds = Append(@, kind),
                        !.h = Len(c.global_expressions) + 1, !.ref = FALSE]
    ELSE tracker_insert(IF c.expr_type = "Runtime" /\ c.emitter # NotStarted
                           /\ needs_pre_emit(expr)
                        THEN Emitter_start(arena_append(Emitter_finish(c), expr))
                        ELSE arena_append(c, expr),
                        kind)

\* The literal a Const-kind expression evaluates to (try_eval_and_append_impl).
Evaluated(c, expr) ==
    LET arena == Arena(c) IN
    CASE expr.k = "Constant" -> c.global_expressions[c.constants[expr.h].init]
      [] expr.k = "As" ->
            [k |-> "Literal", ty |-> expr.to, v |-> arena[expr.expr].v]
      [] expr.k = "Math" ->
            [arena[expr.arg] EXCEPT !.v = IF @ < 0 THEN 0 - @ ELSE @]
      [] expr.k = "Binary" ->
            [k |-> "Literal", ty |-> arena[expr.left].ty,
             v |-> arena[expr.left].v + arena[expr.right].v]
      [] expr.k = "AccessIndex" /\ arena[expr.base].k = "ZeroValue" ->
            [k |-> "ZeroValue", ty |-> Scalar(arena[expr.base].ty.s)]
      [] OTHER -> expr

\* ConstantEvaluator::try_eval_and_append under the behaviour that
\* as_const_evaluator selects for the context.
try_eval_and_append_impl(c, expr, kind) ==
    IF kind = "Override" /\ c.expr_type \notin {"Runtime", "Override"}
    THEN Fail(c, "ConstantEvaluatorError(OverrideExpr)")
    ELSE IF kind = "Runtime" /\ c.expr_type # "Runtime"
    THEN Fail(c, "ConstantEvaluatorError(RuntimeExpr)")
    ELSE append_expr(c, IF kind = "Const" THEN Evaluated(c, expr) ELSE expr, kind)

try_eval_and_append(c, expr) ==
    try_eval_and_append_impl(c, expr, type_of_with_expr(Tracker(c), expr))

(***************************************************************************)
(* ExpressionContext                                                       *)
(***************************************************************************)
append_expression(c, expr) == try_eval_and_append(c, expr)

\* ExpressionContext::as_const: Runtime and Constant(Some) keep the local
\* context, Constant(None) and Override have none.
ExpressionContext_as_const(c) ==
    [c EXCEPT !.expr_type = IF HasLocalCtx(c) THEN "ConstantLocal" ELSE "ConstantGlobal"]

\* Declared::runtime / Declared::const_time, as a visibility test.
Declared_runtime(d) == TRUE

Declared_const_time_of_any_local(d) == TRUE

Declared_const_time(d) == d.decl = "Const"

\* ExpressionContext::local
local(c, id) ==
    LET d == c.local_table[id]
        found == CASE c.expr_type = "Runtime" -> Declared_runtime(d)
                   [] c.expr_type = "ConstantLocal" -> Declared_const_time(d)
                   [] OTHER -> FALSE
        seen == Append(c.lookups, [expr_type |-> c.expr_type, id |-> id, found |-> found,
                                   before |-> Len(c.expressions) + Len(c.global_expressions)])
    IN  IF found
        THEN [c EXCEPT !.h = d.h, !.ref = d.ref, !.lookups = seen]
        ELSE [c EXCEPT !.err = "UnexpectedOperationInConstContext", !.lookups = seen]

\* Module::eval_expr_to_u32_from: the value of an i32 or u32 literal.
eval_expr_to_u32_from(c, arena, h) ==
    LET e == arena[h] IN
    IF e.k = "Literal" /\ e.ty \in {"i32", "u32"}
    THEN IF e.v < 0 THEN Fail(c, "U32EvalError::Negative") ELSE [c EXCEPT !.size = e.v]
    ELSE Fail(c, "U32EvalError::NonConst")

\* ExpressionContext::const_eval_expr_to_u32: the value is in size.
const_eval_expr_to_u32(c, h) ==
    CASE c.expr_type = "Runtime" ->
            IF ~is_const(c.kinds, h) THEN Fail(c, "U32EvalError::NonConst")
            ELSE eval_expr_to_u32_from(c, c.expressions, h)
      [] c.expr_type = "ConstantLocal" ->
            IF ~is_const(c.kinds, h)
            THEN Fail(c, "panic: assertion failed: is_const(handle)")
            ELSE eval_expr_to_u32_from(c, c.expressions, h)
      [] c.expr_type = "ConstantGlobal" -> eval_expr_to_u32_from(c, c.global_expressions, h)
      [] OTHER -> Fail(c, "U32EvalError::NonConst")

runtime_expression_ctx_of_any_context(c) == c

\* ExpressionContext::runtime_expression_ctx
runtime_expression_ctx(c) ==
    IF Ok(c) /\ c.expr_type # "Runtime"
    THEN Fail(c, "UnexpectedOperationInConstContext") ELSE c

emitter_left_closed(c1, c2) == c2

\* The second half of interrupt_emitter: the emitter starts again.
emitter_restarted(c1, c2) == IF Ok(c1) /\ HasLocalCtx(c2) THEN Emitter_start(c2) ELSE c2

emitter_interrupted(c1, expr) ==
    emitter_restarted(c1, IF Ok(c1) THEN append_expression(c1, expr) ELSE c1)

interrupt_emitter_in_the_window(c, expr) == append_expression(c, expr)

\* ExpressionContext::interrupt_emitter: the emitter is started again whether
\* or not the expression could be appended.
interrupt_emitter(c, expr) ==
    emitter_interrupted(IF HasLocalCtx(c) THEN Emitter_finish(c) ELSE c, expr)

\* ExpressionContext::apply_load_rule
apply_load_rule(c) ==
    IF Ok(c) /\ c.ref
    THEN append_expression(c, [k |-> "Load", pointer |-> c.h])
    ELSE c

\* ConstantEvaluator::cast of the constant in h to the scalar s: a literal
\* becomes a literal of the scalar, a Splat becomes the Splat of the cast of
\* its value.
cast_splat(c1) ==
    IF Ok(c1) THEN append_expr(c1, [k |-> "Splat", value |-> c1.h], "Const") ELSE c1

cast(c, s) ==
    IF Arena(c)[c.h].k = "Splat"
    THEN cast_splat(append_expr(c, [k |-> "Literal", ty |-> s,
                                    v |-> Arena(c)[Arena(c)[c.h].value].v], "Const"))
    ELSE append_expr(c, [k |-> "Literal", ty |-> s, v |-> Arena(c)[c.h].v], "Const")

\* The cast of an abstract value of type ty to its concrete scalar.
concretize_cast(c, ty) ==
    IF ~is_abstract(ty) THEN c
    ELSE IF ~is_const(Tracker(c), c.h)
    THEN Fail(c, "ConstantEvaluatorError(SubexpressionsAreNotConstant)")
    ELSE cast(c, Scalar_concretize(ty.s))

\* ExpressionContext::concretize (conversion.rs): an abstract value is cast to
\* its concrete scalar by the constant evaluator, which appends the result.
concretize(c) == IF ~Ok(c) THEN c ELSE concretize_cast(c, resolve_inner(c, c.h))

\* The conversion of a value of type ty to the goal type.
convert_to(c, ty, goal) ==
    IF ~is_abstract(ty) \/ ty = goal THEN c
    ELSE IF ty.k = goal.k /\ goal.p = "val"
            /\ goal.s \in (IF ty.s = "abstract-int" THEN {"i32", "u32", "f32"}
                           ELSE {"f32"})
    THEN cast(c, goal.s)
    ELSE Fail(c, "AutoConversion")

\* ExpressionContext::try_automatic_conversions (conversion.rs): only an
\* abstract value converts; anything else is left for the validator.
try_automatic_conversions(c, goal) ==
    IF ~Ok(c) THEN c ELSE convert_to(c, resolve_inner(c, c.h), goal)

(***************************************************************************)
(* Components: what follows the `.` of a vector access.  A name is a       *)
(* sequence of letters.                                                    *)
(***************************************************************************)
NoComponent == 0 - 1

\* Components::letter_component
letter_component(letter) ==
    CASE letter \in {"x", "r"} -> 0
      [] letter \in {"y", "g"} -> 1
      [] letter \in {"z", "b"} -> 2
      [] letter \in {"w", "a"} -> 3
      [] OTHER -> NoComponent

Components_new_of_any_letters(name) ==
    IF Len(name) = 1
    THEN IF letter_component(name[1]) = NoComponent
         THEN [k |-> "BadAccessor"]
         ELSE [k |-> "Single", index |-> letter_component(name[1])]
    ELSE IF Len(name) \notin {2, 3, 4}
    THEN [k |-> "BadAccessor"]
    ELSE IF \E i \in 1..Len(name) : letter_component(name[i]) = NoComponent
    THEN [k |-> "BadAccessor"]
    ELSE [k |-> "Swizzle", size |-> Len(name),
          pattern |-> [i \in 1..4 |-> IF i <= Len(name)
                                      THEN letter_component(name[i]) ELSE 0]]

\* Components::new: Single(index), Swizzle{size, pattern} or BadAccessor.
Components_new(name) ==
    LET all(S) == \A i \in 1..Len(name) : name[i] \in S IN
    IF Len(name) = 1
    THEN IF letter_component(name[1]) = NoComponent
         THEN [k |-> "BadAccessor"]
         ELSE [k |-> "Single", index |-> letter_component(name[1])]
    ELSE IF Len(name) \notin {2, 3, 4}
    THEN [k |-> "BadAccessor"]
    ELSE IF \E i \in 1..Len(name) : letter_component(name[i]) = NoComponent
    THEN [k |-> "BadAccessor"]
    ELSE IF all({"x", "y", "z", "w"}) \/ all({"r", "g", "b", "a"})
    THEN [k |-> "Swizzle", size |-> Len(name),
          pattern |-> [i \in 1..4 |-> IF i <= Len(name)
                                      THEN letter_component(name[i]) ELSE 0]]
    ELSE [k |-> "BadAccessor"]

(***************************************************************************)
(* Lowerer::expression_for_reference / expression_for_abstract /           *)
(* expression / binary / call.  Each takes the AST expression and the      *)
(* context, and returns the context with the result in h (the handle) and  *)
(* ref (Typed::Reference or Typed::Plain), or with err set.                *)
(***************************************************************************)
RECURSIVE expression_for_reference(_, _)
RECURSIVE expression_for_abstract(_, _)
RECURSIVE expression(_, _)
RECURSIVE call_arguments(_, _, _)
RECURSIVE call(_, _, _, _)
RECURSIVE binary(_, _)
RECURSIVE builtin(_, _, _, _)
RECURSIVE construct(_, _, _)

\* Lowerer::expression
expression(ast, c) == concretize(expression_for_abstract(ast, c))

\* Lowerer::expression_for_abstract
expression_for_abstract(ast, c) == apply_load_rule(expression_for_reference(ast, c))

\* The argument list of a user function call: an argument that has a
\* parameter is converted to the parameter's type, any other is concretized.
call_arguments_rest(args, params, c1) ==
    IF ~Ok(c1) THEN c1
    ELSE [call_arguments(Tail(args), IF params = << >> THEN params ELSE Tail(params), c1)
            EXCEPT !.args = << c1.h >> \o @]

call_arguments(args, params, c) ==
    IF args = << >> \/ ~Ok(c) THEN [c EXCEPT !.args = << >>]
    ELSE call_arguments_rest(args, params,
             IF params = << >>
             THEN expression(Head(args), c)
             ELSE try_automatic_conversions(expression_for_abstract(Head(args), c),
                                            Head(params)))

\* ExpressionKindTracker::insert: the handle must be the next of the tracker.
ExpressionKindTracker_insert(c, h, kind) ==
    IF Len(c.kinds) + 1 # h
    THEN Fail(c, "panic: tracker insert out of order")
    ELSE [c EXCEPT !.kinds = Append(@, kind)]

call_result_untracked(c, function) ==
    [c EXCEPT !.expressions = Append(@, [k |-> "CallResult", function |-> function]),
              !.h = Len(c.expressions) + 1, !.ref = FALSE]

\* The CallResult of a call that has a result: appended to the arena outside
\* of any Emit, and recorded as Runtime.
call_result(c, function) ==
    ExpressionKindTracker_insert(
        [c EXCEPT !.expressions = Append(@, [k |-> "CallResult", function |-> function]),
                  !.h = Len(c.expressions) + 1, !.ref = FALSE],
        Len(c.expressions) + 1, "Runtime")

\* The Call statement, pushed once the emitter runs again.
call_push(function, has_result, args, value, c4) ==
    IF ~Ok(c4) THEN c4
    ELSE [c4 EXCEPT !.void = ~has_result,
                    !.block = Append(@, [k |-> "Call", function |-> function,
                                         arguments |-> args,
                                         result |-> IF has_result THEN value ELSE 0])]

call_restart(function, has_result, args, c3) ==
    call_push(function, has_result, args, c3.h, IF Ok(c3) THEN Emitter_start(c3) ELSE c3)

call_returned(function, has_result, args, c2) ==
    call_restart(function, has_result, args,
                 IF has_result /\ Ok(c2) THEN call_result(c2, function) ELSE c2)

call_finished(function, has_result, args, r) ==
    call_returned(function, has_result, args, IF Ok(r) THEN Emitter_finish(r) ELSE r)

\* A user function, once its arguments are lowered.
call_function(decl, is_statement, c1) ==
    IF ~Ok(c1) THEN c1
    ELSE IF decl.must_use /\ is_statement
    THEN Fail(c1, "FunctionMustUseUnused")
    ELSE call_finished(decl.h, module.functions[decl.h].result # NoType, c1.args,
                       runtime_expression_ctx(c1))

call_without_globals(function, args, c, is_statement) ==
    builtin(function, args, c, is_statement)

\* Lowerer::call.  The result has void = TRUE when the call yields no value.
call(function, args, c, is_statement) ==
    IF function \notin DOMAIN globals
    THEN builtin(function, args, c, is_statement)
    ELSE CASE globals[function].k = "Type" -> construct(globals[function].h, args, c)
           [] globals[function].k \in {"Const", "Override", "Var"} ->
                 Fail(c, "Unexpected(Function)")
           [] globals[function].k = "EntryPoint" -> Fail(c, "CalledEntryPoint")
           [] globals[function].k = "Function" ->
                 call_function(globals[function], is_statement,
                               call_arguments(args,
                                              module.functions[globals[function].h].arguments,
                                              c))
           [] OTHER -> Fail(c, "Unexpected(Function)")

\* Scalar::automatic_conversion_combine (conversion.rs): the scalar both
\* convert to, "" when there is none.
automatic_conversion_combine(a, b) ==
    CASE a = b -> a
      [] a = "abstract-int" /\ b \in {"i32", "u32", "f32", "abstract-float"} -> b
      [] b = "abstract-int" /\ a \in {"i32", "u32", "f32", "abstract-float"} -> a
      [] a = "abstract-float" /\ b = "f32" -> b
      [] b = "abstract-float" /\ a = "f32" -> a
      [] OTHER -> ""

\* ExpressionContext::automatic_conversion_consensus (conversion.rs) over the
\* handles after the first, whose scalar is best: the consensus, or Err(i).
RECURSIVE automatic_conversion_consensus(_, _, _, _)
automatic_conversion_consensus(c, handles, i, best) ==
    IF handles = << >> THEN [scalar |-> best, err |-> 0 - 1]
    ELSE LET combined(new_best) ==
                 IF new_best = "" THEN [scalar |-> "", err |-> i]
                 ELSE automatic_conversion_consensus(c, Tail(handles), i + 1, new_best)
         IN  combined(automatic_conversion_combine(
                          best, resolve_inner(c, Head(handles)).s))

\* ExpressionContext::convert_to_leaf_scalar (conversion.rs): an expression
\* of another leaf scalar is cast, and the cast of a constant is evaluated
\* (that of a constant Splat is the Splat of the cast of its value).
convert_to_leaf_scalar(c, h, goal) ==
    IF resolve_inner(c, h).s = goal THEN [c EXCEPT !.h = h]
    ELSE IF Arena(c)[h].k = "Splat" /\ is_const(Tracker(c), h)
    THEN cast([c EXCEPT !.h = h], goal)
    ELSE append_expression(c, [k |-> "As", expr |-> h, to |-> goal])

\* The operators whose scalar operand is lifted to the other operand's vector.
splat_operators == {"+", "-", "/", "%"}

splat_right(left, r) == [r EXCEPT !.args = << left, r.h >>]

splat_left(right, l) == [l EXCEPT !.args = << l.h, right >>]

\* The operands of types lt and rt: the scalar one of a vector and a scalar
\* is replaced by a Splat of it, whatever the two leaf scalars are.
splat_operands(c, left, right, lt, rt) ==
    IF lt.k = "Vector" /\ lt.p = "val" /\ rt.k = "Scalar" /\ rt.p = "val"
    THEN splat_right(left, append_expression(c, [k |-> "Splat", value |-> right]))
    ELSE IF lt.k = "Scalar" /\ lt.p = "val" /\ rt.k = "Vector" /\ rt.p = "val"
    THEN splat_left(right, append_expression(c, [k |-> "Splat", value |-> left]))
    ELSE [c EXCEPT !.args = << left, right >>]

binary_op_splat_of_any_operator(c, op, left, right) ==
    splat_operands(c, left, right, resolve_inner(c, left), resolve_inner(c, right))

\* ExpressionContext::binary_op_splat: the operands are left in args.
binary_op_splat(c, op, left, right) ==
    IF op \notin splat_operators THEN [c EXCEPT !.args = << left, right >>]
    ELSE splat_operands(c, left, right, resolve_inner(c, left), resolve_inner(c, right))

\* TypeInner::automatically_convertible_scalar (conversion.rs): the leaf
\* scalar of a value of a scalar, vector or array type, "" for another type.
automatically_convertible_scalar(ty) ==
    IF ty.p = "val" /\ ty.k \in {"Scalar", "Vector", "Array"} THEN ty.s ELSE ""

\* The consensus leaf scalar of the two operands, "" when there is none.
binary_consensus(c, left, right) ==
    automatic_conversion_combine(
        automatically_convertible_scalar(resolve_inner(c, left)),
        automatically_convertible_scalar(resolve_inner(c, right)))

\* The Binary expression over the operands, left for the caller in c.pending.
binary_pending(op, left, cr) ==
    IF ~Ok(cr) THEN cr
    ELSE [cr EXCEPT !.pending = [k |-> "Binary", op |-> op, left |-> left, right |-> cr.h]]

\* The right operand converts to the consensus scalar after the left one.
binary_right(op, right, goal, cl) ==
    IF ~Ok(cl) THEN cl
    ELSE binary_pending(op, cl.h, convert_to_leaf_scalar(cl, right, goal))

\* Both operands convert to the consensus scalar; without a consensus they
\* are used as they are.
binary_converted(op, c1, c2, goal) ==
    IF goal = "" THEN binary_pending(op, c1.h, c2)
    ELSE binary_right(op, c2.h, goal, convert_to_leaf_scalar(c2, c1.h, goal))

\* The right operand lowered: binary_op_splat over the two operands.
binary_right_operand(op, c1, c2) ==
    IF ~Ok(c2) THEN c2 ELSE binary_op_splat(c2, op, c1.h, c2.h)

binary_operands(op, c1, c2) ==
    IF ~Ok(c2) THEN c2
    ELSE binary_converted(op, c1, c2, binary_consensus(c2, c1.h, c2.h))

\* The operands after binary_op_splat: the left in c1.h, the right in c2.h.
binary_splatted(op, c1, cs) ==
    IF ~Ok(cs) THEN cs
    ELSE binary_operands(op, [c1 EXCEPT !.h = cs.args[1]], [cs EXCEPT !.h = cs.args[2]])

binary_second(ast, c1) ==
    binary_splatted(ast.op, c1,
                    IF Ok(c1)
                    THEN binary_right_operand(ast.op, c1, expression_for_abstract(ast.right, c1))
                    ELSE c1)

\* Lowerer::binary: both operands load-ruled, then reconciled to one leaf
\* scalar when a consensus exists.  Returns the Binary expression in c.pending.
binary(ast, c) == binary_second(ast, expression_for_abstract(ast.left, c))

deref_of_any_value(r) == IF ~Ok(r) THEN r ELSE [r EXCEPT !.ref = TRUE]

\* ast::Expression::Deref, once the operand is lowered: a pointer value
\* becomes a reference to what it points to.
deref(r) ==
    IF ~Ok(r) THEN r
    ELSE IF ~pointer_space_is_some(resolve_inner(r, r.h)) THEN Fail(r, "NotPointer")
    ELSE [r EXCEPT !.ref = TRUE]

\* ast::Expression::Ident of a global: a variable outside the handle address
\* space is a reference.
ident_global(decl, r) ==
    [r EXCEPT !.ref = decl.k = "Var" /\ module.global_variables[decl.h].space # "Handle"]

ident(decl, c) ==
    IF decl.k \notin {"Var", "Const", "Override"}
    THEN Fail(c, "Unexpected(Variable)")
    ELSE ident_global(decl, interrupt_emitter(c,
             [k |-> CASE decl.k = "Var" -> "GlobalVariable"
                      [] decl.k = "Const" -> "Constant"
                      [] OTHER -> "Override",
              h |-> decl.h]))

addr_of_keeping_the_tag(r) == r

\* ast::Expression::AddrOf, once the operand is lowered.
addr_of(r) ==
    IF ~Ok(r) THEN r
    ELSE IF ~r.ref THEN Fail(r, "NotReference")
    ELSE IF ~Ok(runtime_expression_ctx(r)) THEN runtime_expression_ctx(r)
    ELSE IF r.expressions[r.h].k \in {"Access", "AccessIndex"}
            /\ resolve_inner(r, r.expressions[r.h].base).p = "ptr"
            /\ resolve_inner(r, r.expressions[r.h].base).k = "Vector"
    THEN Fail(r, "InvalidAddrOfOperand")
    ELSE [r EXCEPT !.ref = FALSE]

\* ast::Expression::Binary, once the operands are reconciled.
binary_append(r) == IF ~Ok(r) THEN r ELSE append_expression(r, r.pending)

\* ast::Expression::Call, once the call is lowered: it must yield a value.
call_value(r) ==
    IF ~Ok(r) THEN r
    ELSE IF r.void THEN Fail(r, "FunctionReturnsVoid")
    ELSE [r EXCEPT !.ref = FALSE]

\* The reference-ness of the base is that of the access.
member_access(b, r) == IF Ok(r) THEN [r EXCEPT !.ref = b.ref] ELSE r

member_swizzle(comp, v) ==
    IF ~Ok(v) THEN v
    ELSE append_expression(v, [k |-> "Swizzle", size |-> comp.size,
                               vector |-> v.h, pattern |-> comp.pattern])

member_component(comp, b) ==
    IF resolve_inner(b, b.h).k # "Vector" THEN Fail(b, "BadAccessor")
    ELSE CASE comp.k = "BadAccessor" -> Fail(b, "BadAccessor")
           [] comp.k = "Single" ->
                member_access(b, append_expression(b, [k |-> "AccessIndex", base |-> b.h,
                                                       index |-> comp.index]))
           [] OTHER -> member_swizzle(comp, apply_load_rule(b))

\* Pointer composite access: a plain pointer is a reference.
member_base(comp, b0) ==
    IF ~Ok(b0) THEN b0
    ELSE member_component(comp, IF ~b0.ref /\ pointer_space_is_some(resolve_inner(b0, b0.h))
                                THEN [b0 EXCEPT !.ref = TRUE] ELSE b0)

\* The errors of the model that are panics of the code, not Err values.
Panics ==
    { "panic: Emitting has already started!", "panic: finish without start",
      "panic: tracker insert out of order", "panic: assertion failed: is_const(handle)" }

\* The index is no u32 constant: Access over the concretized base.
index_access(b, index, cb) ==
    IF ~Ok(cb) THEN cb
    ELSE member_access(b, append_expression(cb, [k |-> "Access", base |-> cb.h,
                                                 index |-> index]))

\* The access once the index is evaluated by const_eval_expr_to_u32 (n):
\* AccessIndex when it is Ok, Access when it is an Err.
index_evaluated(b, r, n) ==
    IF n.err \in Panics THEN n
    ELSE IF Ok(n)
    THEN member_access(b, append_expression(r, [k |-> "AccessIndex", base |-> b.h,
                                                index |-> n.size]))
    ELSE index_access(b, r.h, concretize([r EXCEPT !.h = b.h]))

\* b is the base as lowered, r the context once the index is lowered.
index_indexed(b, r) ==
    IF ~Ok(r) THEN r ELSE index_evaluated(b, r, const_eval_expr_to_u32(r, r.h))

\* Pointer composite access: a plain pointer is a reference.
index_base(index, b) ==
    IF ~Ok(b) THEN b
    ELSE index_indexed(IF ~b.ref /\ pointer_space_is_some(resolve_inner(b, b.h))
                       THEN [b EXCEPT !.ref = TRUE] ELSE b,
                       expression(index, b))

\* Lowerer::expression_for_reference
expression_for_reference(ast, c) ==
    IF ~Ok(c) THEN c
    ELSE
    CASE ast.k = "Literal" ->
            interrupt_emitter(c, [k |-> "Literal", ty |-> ast.ty, v |-> ast.v])
      [] ast.k = "Local" -> local(c, ast.id)
      [] ast.k = "Ident" ->
            IF ast.name \notin DOMAIN globals THEN Fail(c, "UnknownIdent")
            ELSE ident(globals[ast.name], c)
      [] ast.k = "AddrOf" -> addr_of(expression_for_reference(ast.e, c))
      [] ast.k = "Deref" -> deref(expression(ast.e, c))
      [] ast.k = "Binary" -> binary_append(binary(ast, c))
      [] ast.k = "Call" -> call_value(call(ast.function, ast.arguments, c, FALSE))
      [] ast.k = "Index" -> index_base(ast.index, expression_for_reference(ast.base, c))
      [] ast.k = "Member" ->
            member_base(Components_new(ast.field), expression_for_reference(ast.base, c))
      [] OTHER -> Fail(c, "UnknownIdent")

(***************************************************************************)
(* AST types and Lowerer::resolve_ast_type.                                *)
(***************************************************************************)
NoAstType == [k |-> "None"]
AstScalar(s) == [k |-> "Scalar", s |-> s]
AstVector(s) == [k |-> "Vector", s |-> s]
AstPointer(base) == [k |-> "Pointer", base |-> base]

AstArray(base, size) == [k |-> "Array", base |-> base, size |-> size]

\* crate::ArraySize
ArraySize_Constant(n) == [k |-> "Constant", n |-> n]

ArraySize_Pending(h) == [k |-> "Pending", h |-> h]

Array(base, size) == [k |-> "Array", s |-> base.s, p |-> "val", size |-> size]

\* UniqueArena::insert: a type the arena holds keeps its handle, a new one is
\* appended.
UniqueArena_insert(arena, ty) ==
    IF \E i \in 1..Len(arena) : arena[i] = ty THEN arena ELSE Append(arena, ty)

\* ExpressionContext::ensure_type_exists
ensure_type_exists(c, ty) ==
    [c EXCEPT !.ty = ty, !.types = UniqueArena_insert(@, ty)]

\* ExpressionContext::register_type: the type of an expression goes to the
\* module's arena.
register_type(c, h) == [c EXCEPT !.types = UniqueArena_insert(@, resolve_inner(c, h))]

(***************************************************************************)
(* The built-in functions Lowerer::call falls through to when the name is  *)
(* no global: the atomic read-modify-write family, one math function and   *)
(* the barriers.                                                           *)
(***************************************************************************)
Atomic(s) == [k |-> "Atomic", s |-> s, p |-> "val"]

\* Scalar::width in bytes
Scalar_width(s) == IF s \in {"i64", "u64", "f64"} THEN 8 ELSE 4

\* crate::AtomicFunction::map: "" for any other word
AtomicFunction_map(word) ==
    CASE word = "atomicAdd" -> "Add"
      [] word = "atomicSub" -> "Subtract"
      [] word = "atomicAnd" -> "And"
      [] word = "atomicOr" -> "InclusiveOr"
      [] word = "atomicXor" -> "ExclusiveOr"
      [] word = "atomicMin" -> "Min"
      [] word = "atomicMax" -> "Max"
      [] word = "atomicExchange" -> "Exchange"
      [] OTHER -> ""

\* ArgumentContext::next and finish, over what is left of the arguments.
args_next(args, c) == IF args = << >> THEN Fail(c, "WrongArgumentCount") ELSE c

args_finish(args, c) ==
    IF Ok(c) /\ args # << >> THEN Fail(c, "WrongArgumentCount") ELSE c

\* The operand of an atomic function must be a pointer to an atomic.
atomic_pointer_checked(c1) ==
    IF ~Ok(c1) THEN c1
    ELSE IF resolve_inner(c1, c1.h).p = "ptr" /\ resolve_inner(c1, c1.h).k = "Atomic"
    THEN c1
    ELSE Fail(c1, "InvalidAtomicPointer")

\* Lowerer::atomic_pointer
atomic_pointer(expr, c) == atomic_pointer_checked(expression(expr, c))

is_64_bit_min_max_of_any_width(fun, value_inner) == fun \in {"Min", "Max"}

\* is_64_bit_min_max
is_64_bit_min_max(fun, value_inner) ==
    fun \in {"Min", "Max"} /\ value_inner.k = "Scalar" /\ value_inner.p = "val"
        /\ Scalar_width(value_inner.s) = 8

\* Lowerer::atomic_helper, from its end to its start.  The Statement::Atomic
\* goes to the block of the runtime context.
atomic_push(fun, pointer, value, none, r) ==
    IF ~Ok(r) THEN r
    ELSE [r EXCEPT !.void = none,
                   !.block = Append(@, [k |-> "Atomic", pointer |-> pointer,
                                        fun |-> fun, value |-> value,
                                        result |-> IF none THEN 0 ELSE r.h])]

\* The result: none after the Emit of what was lowered so far, or an
\* AtomicResult expression of the type of the value.
atomic_result(value, none, c3) ==
    IF ~Ok(c3) THEN c3
    ELSE IF ~none
    THEN interrupt_emitter(register_type(c3, value),
                           [k |-> "AtomicResult", ty |-> resolve_inner(c3, value),
                            comparison |-> FALSE])
    ELSE IF ~Ok(runtime_expression_ctx(c3)) THEN runtime_expression_ctx(c3)
    ELSE Emitter_start(Emitter_finish(c3))

\* The value is lowered and args.finish() is done: c3.h is the value.
atomic_value(fun, pointer, none, c3) ==
    atomic_push(fun, pointer, c3.h, none,
                runtime_expression_ctx(atomic_result(c3.h, none, c3)))

\* The value is lowered: c2.h is the value, args.finish() is next.
atomic_valued(fun, args, is_statement, pointer, c2) ==
    IF ~Ok(c2) THEN c2
    ELSE atomic_value(fun, pointer,
                      is_64_bit_min_max(fun, resolve_inner(c2, c2.h)) /\ is_statement,
                      args_finish(Tail(Tail(args)), c2))

\* The pointer is lowered: c1.h is the pointer, the value is next.
atomic_pointed(fun, args, is_statement, c1) ==
    IF ~Ok(c1) THEN c1
    ELSE IF Tail(args) = << >> THEN args_next(Tail(args), c1)
    ELSE atomic_valued(fun, args, is_statement, c1.h, expression(args[2], c1))

\* Lowerer::atomic_helper.  The result is in h, void when there is none.
atomic_helper(fun, args, is_statement, c) ==
    IF args = << >> THEN args_next(args, c)
    ELSE atomic_pointed(fun, args, is_statement, atomic_pointer(args[1], c))

\* conv::map_standard_fun, for the one math function of the model
map_standard_fun(word) == IF word = "abs" THEN "Abs" ELSE ""

Barriers == {"storageBarrier", "workgroupBarrier", "subgroupBarrier", "textureBarrier"}

\* A math function of one argument, once the argument is lowered and
\* args.finish() is done.
math_function(fun, c2) ==
    IF ~Ok(c2) THEN c2
    ELSE [append_expression(c2, [k |-> "Math", fun |-> fun, arg |-> c2.h])
            EXCEPT !.void = FALSE]

math_argument(fun, args, c0) ==
    IF ~Ok(c0) THEN c0
    ELSE math_function(fun, args_finish(Tail(args), expression(args[1], c0)))

\* A barrier: a statement of the runtime context, without a result.
barrier(fname, c1) ==
    IF ~Ok(c1) THEN c1
    ELSE [c1 EXCEPT !.void = TRUE,
                    !.block = Append(@, [k |-> "Barrier", flags |-> fname])]

\* "atomicStore", from its end to its start: the Store goes to the block of
\* the runtime context after the Emit of what was lowered so far.
atomic_store_push(pointer, value, r) ==
    IF ~Ok(r) THEN r
    ELSE [r EXCEPT !.void = TRUE,
                   !.block = Append(@, [k |-> "Store", pointer |-> pointer, value |-> value])]

atomic_store_flush(pointer, value, r) ==
    atomic_store_push(pointer, value,
                      IF Ok(r) THEN Emitter_start(Emitter_finish(r)) ELSE r)

atomic_store_value(pointer, c2) ==
    atomic_store_flush(pointer, c2.h, runtime_expression_ctx(c2))

atomic_store_pointed(args, c1) ==
    IF ~Ok(c1) THEN c1
    ELSE IF Tail(args) = << >> THEN args_next(Tail(args), c1)
    ELSE atomic_store_value(c1.h, args_finish(Tail(Tail(args)), expression(args[2], c1)))

atomic_store(args, c) ==
    IF args = << >> THEN args_next(args, c)
    ELSE atomic_store_pointed(args, atomic_pointer(args[1], c))

RayQuery == [k |-> "RayQuery", s |-> "", p |-> "val"]

\* The operand of a ray query function must be a pointer to a ray query.
ray_query_pointer_checked(c1) ==
    IF ~Ok(c1) THEN c1
    ELSE IF resolve_inner(c1, c1.h).p = "ptr" /\ resolve_inner(c1, c1.h).k = "RayQuery"
    THEN c1
    ELSE Fail(c1, "InvalidRayQueryPointer")

\* Lowerer::ray_query_pointer
ray_query_pointer(expr, c) == ray_query_pointer_checked(expression(expr, c))

\* The Statement::RayQuery goes to the block of the runtime context.
ray_query_push(query, fun, void, r) ==
    IF ~Ok(r) THEN r
    ELSE [r EXCEPT !.void = void,
                   !.block = Append(@, [k |-> "RayQuery", query |-> query, fun |-> fun])]

\* "rayQueryInitialize": the statement is pushed after the Emit of what was
\* lowered so far.
ray_query_initialize_flush(query, fun, r) ==
    ray_query_push(query, fun, TRUE, IF Ok(r) THEN Emitter_start(Emitter_finish(r)) ELSE r)

ray_query_initialize_descriptor(query, acceleration_structure, c3) ==
    ray_query_initialize_flush(
        query,
        [k |-> "Initialize", acceleration_structure |-> acceleration_structure,
         descriptor |-> c3.h],
        runtime_expression_ctx(c3))

ray_query_initialize_structure(args, query, c2) ==
    IF ~Ok(c2) THEN c2
    ELSE IF Tail(Tail(args)) = << >> THEN args_next(Tail(Tail(args)), c2)
    ELSE ray_query_initialize_descriptor(
             query, c2.h, args_finish(Tail(Tail(Tail(args))), expression(args[3], c2)))

ray_query_initialize_pointed(args, c1) ==
    IF ~Ok(c1) THEN c1
    ELSE IF Tail(args) = << >> THEN args_next(Tail(args), c1)
    ELSE ray_query_initialize_structure(args, c1.h, expression(args[2], c1))

ray_query_initialize(args, c) ==
    IF args = << >> THEN args_next(args, c)
    ELSE ray_query_initialize_pointed(args, ray_query_pointer(args[1], c))

\* "rayQueryProceed": the result interrupts the emitter.
ray_query_proceed_result(query, r) ==
    ray_query_push(query, [k |-> "Proceed", result |-> r.h], FALSE,
                   runtime_expression_ctx(r))

ray_query_proceed_pointed(c1) ==
    IF ~Ok(c1) THEN c1
    ELSE ray_query_proceed_result(
             c1.h, interrupt_emitter(c1, [k |-> "RayQueryProceedResult"]))

ray_query_proceed(args, c) ==
    IF args = << >> THEN args_next(args, c)
    ELSE ray_query_proceed_pointed(args_finish(Tail(args), ray_query_pointer(args[1], c)))

\* "rayQueryGenerateIntersection": the statement is pushed as soon as hit_t
\* is lowered.
ray_query_generate_hit(query, c2) ==
    ray_query_push(query, [k |-> "GenerateIntersection", hit_t |-> c2.h], TRUE,
                   runtime_expression_ctx(c2))

ray_query_generate_pointed(args, c1) ==
    IF ~Ok(c1) THEN c1
    ELSE IF Tail(args) = << >> THEN args_next(Tail(args), c1)
    ELSE ray_query_generate_hit(c1.h,
                                args_finish(Tail(Tail(args)), expression(args[2], c1)))

ray_query_generate_intersection(args, c) ==
    IF args = << >> THEN args_next(args, c)
    ELSE ray_query_generate_pointed(args, ray_query_pointer(args[1], c))

\* "rayQueryConfirmIntersection" and "rayQueryTerminate": the statement is
\* pushed as soon as the query is lowered.
ray_query_pointed(fun, c1) ==
    ray_query_push(c1.h, [k |-> fun], TRUE, runtime_expression_ctx(c1))

ray_query(fun, args, c) ==
    IF args = << >> THEN args_next(args, c)
    ELSE ray_query_pointed(fun, args_finish(Tail(args), ray_query_pointer(args[1], c)))

\* The built-ins of the ray query family that form a statement.
ray_query_function(fname, args, c) ==
    CASE fname = "rayQueryInitialize" -> ray_query_initialize(args, c)
      [] fname = "rayQueryProceed" -> ray_query_proceed(args, c)
      [] fname = "rayQueryGenerateIntersection" -> ray_query_generate_intersection(args, c)
      [] fname = "rayQueryConfirmIntersection" -> ray_query("ConfirmIntersection", args, c)
      [] OTHER -> ray_query("Terminate", args, c)

RayQueryFunctions ==
    {"rayQueryInitialize", "rayQueryProceed", "rayQueryGenerateIntersection",
     "rayQueryConfirmIntersection", "rayQueryTerminate"}

\* Lowerer::call, when the name is no global.
builtin(fname, args, c, is_statement) ==
    IF map_standard_fun(fname) # ""
    THEN math_argument(map_standard_fun(fname), args, args_next(args, c))
    ELSE IF AtomicFunction_map(fname) # ""
    THEN atomic_helper(AtomicFunction_map(fname), args, is_statement, c)
    ELSE IF fname \in Barriers
    THEN barrier(fname, runtime_expression_ctx(args_finish(args, c)))
    ELSE IF fname = "atomicStore" THEN atomic_store(args, c)
    ELSE IF fname \in RayQueryFunctions THEN ray_query_function(fname, args, c)
    ELSE Fail(c, "UnknownIdent")

\* The conversion of one scalar component to the scalar s.
construct_convert(s, c1) ==
    IF ~Ok(c1) THEN c1
    ELSE IF resolve_inner(c1, c1.h).k # "Scalar" \/ resolve_inner(c1, c1.h).p # "val"
    THEN Fail(c1, "BadTypeCast")
    ELSE [append_expression(c1, [k |-> "As", expr |-> c1.h, to |-> s])
            EXCEPT !.void = FALSE]

\* Lowerer::construct for a scalar type: no component gives the zero value,
\* one scalar component a conversion.
construct(ty, args, c) ==
    CASE Len(args) = 0 ->
            [append_expression(c, [k |-> "ZeroValue", ty |-> c.types[ty]])
                EXCEPT !.void = FALSE]
      [] Len(args) = 1 ->
            construct_convert(c.types[ty].s, expression_for_abstract(args[1], c))
      [] OTHER -> Fail(c, "UnexpectedComponents")

\* TypeInner::scalar_kind: a scalar or a vector has the kind of its scalar.
TypeInner_scalar_kind(ty) == IF ty.k \in {"Scalar", "Vector"} THEN ty.s ELSE ""

IsSintOrUintOrFloat(s) == s \in {"i32", "u32", "i64", "u64", "f32"}

\* ScalarKind::Sint | ScalarKind::Uint
IsSintOrUint(s) == s \in {"i32", "u32", "i64", "u64"}

\* Lowerer::array_size_override: the size is an override-expression; unless it
\* is an override itself, the module gets an unnamed override for it.
array_size_override(size_expr, c) ==
    LET size(c1) ==
            IF ~Ok(c1) THEN c1
            ELSE IF ~IsSintOrUint(TypeInner_scalar_kind(resolve_inner(c1, c1.h)))
            THEN Fail(c1, "ExpectedConstExprConcreteIntegerScalar")
            ELSE IF c1.global_expressions[c1.h].k = "Override"
            THEN [c1 EXCEPT !.size = c1.global_expressions[c1.h].h]
            ELSE [register_type(c1, c1.h) EXCEPT !.overrides =
                               Append(@, [name |-> "", ty |-> resolve_inner(c1, c1.h),
                                          init |-> c1.h]),
                            !.size = Len(c1.overrides) + 1]
    IN  size(expression(size_expr, c))

retried_after_any_error(err) == err # "none"

\* The arm of array_size that lowers the size again: the first attempt ended
\* with the constant evaluator's OverrideExpr.
retried(err) == err = "ConstantEvaluatorError(OverrideExpr)"

\* Lowerer::array_size for ast::ArraySize::Constant: the size is lowered as a
\* const-expression first and, when that meets an override, as an
\* override-expression of the module.  The crate::ArraySize is in c.size.
array_size(size, c) ==
    LET length(len) ==
            CASE len.err = "U32EvalError::NonConst" ->
                    Fail(len, "ExpectedConstExprConcreteIntegerScalar")
              [] len.err = "U32EvalError::Negative" -> Fail(len, "ExpectedPositiveArrayLength")
              [] Ok(len) /\ len.size = 0 -> Fail(len, "ExpectedPositiveArrayLength")
              [] Ok(len) -> [len EXCEPT !.size = ArraySize_Constant(@)]
              [] OTHER -> len
        pending(r) == IF Ok(r) THEN [r EXCEPT !.size = ArraySize_Pending(@)] ELSE r
        const(c1) ==
            IF Ok(c1)
            THEN length(const_eval_expr_to_u32([c1 EXCEPT !.expr_type = c.expr_type], c1.h))
            ELSE IF retried(c1.err)
            THEN [pending(array_size_override(size, [c1 EXCEPT !.err = "none",
                                                               !.expr_type = "Override"]))
                    EXCEPT !.expr_type = c.expr_type]
            ELSE [c1 EXCEPT !.expr_type = c.expr_type]
    IN  const(expression(size, ExpressionContext_as_const(c)))

\* Lowerer::resolve_ast_type for the scalar, vector, pointer and array types:
\* the type is inserted in the module's type arena.  The result is in c.ty.
RECURSIVE resolve_ast_type(_, _)
resolve_ast_type(ty, c) ==
    IF ~Ok(c) THEN c
    ELSE
    CASE ty.k = "Scalar" -> ensure_type_exists(c, Scalar(ty.s))
      [] ty.k = "Vector" -> ensure_type_exists(c, Vector(ty.s))
      [] ty.k = "Pointer" ->
            LET pointer(b) == IF Ok(b) THEN ensure_type_exists(b, Pointer(b.ty)) ELSE b
            IN  pointer(resolve_ast_type(ty.base, c))
      [] ty.k = "Array" ->
            LET array(base, r) ==
                    IF Ok(r) THEN ensure_type_exists(r, Array(base, r.size)) ELSE r
                sized(b) == array(b.ty, IF Ok(b) THEN array_size(ty.size, b) ELSE b)
            IN  sized([resolve_ast_type(ty.base, ExpressionContext_as_const(c))
                         EXCEPT !.expr_type = c.expr_type])
      [] OTHER -> Fail(c, "UnknownType")

\* Lowerer::type_and_init.  init and explicit_ty are NoAst / NoType when
\* absent.  The result is in c.ty and c.h; c.has_init tells whether there is
\* an initializer.
NoAst == [k |-> "None"]

concretized_under_any_rule(abstract_rule, c) == concretize(c)

\* An initializer without an explicit type, under the AbstractRule of the
\* declaration.
concretized(abstract_rule, c) ==
    IF abstract_rule = "Concretize" THEN concretize(c) ELSE c

type_and_init(init, explicit_ty, abstract_rule, c) ==
    IF ~Ok(c) THEN c
    ELSE
    CASE init.k # "None" /\ explicit_ty # NoType ->
            LET converted(c1) ==
                    IF ~Ok(c1)
                    THEN IF c1.err = "AutoConversion"
                         THEN Fail(c1, "InitializationTypeMismatch") ELSE c1
                    ELSE IF resolve_inner(c1, c1.h) # explicit_ty
                    THEN Fail(ensure_type_exists(c1, resolve_inner(c1, c1.h)),
                              "InitializationTypeMismatch")
                    ELSE [ensure_type_exists(c1, explicit_ty) EXCEPT !.has_init = TRUE]
            IN  converted(try_automatic_conversions(expression_for_abstract(init, c),
                                                    explicit_ty))
      [] init.k # "None" /\ explicit_ty = NoType ->
            LET inferred(c2) ==
                    IF ~Ok(c2) THEN c2
                    ELSE [ensure_type_exists(c2, resolve_inner(c2, c2.h))
                            EXCEPT !.has_init = TRUE]
            IN  inferred(concretized(abstract_rule, expression_for_abstract(init, c)))
      [] init.k = "None" /\ explicit_ty # NoType ->
            [c EXCEPT !.ty = explicit_ty, !.has_init = FALSE]
      [] OTHER -> Fail(c, "DeclMissingTypeAndInit")

(***************************************************************************)
(* StatementContext: the contexts a statement opens over the state of the  *)
(* function, and the write-back of what the statement did.                 *)
(***************************************************************************)
CurrentBlock == frames[Len(frames)].block

is_inside_loop == frames[Len(frames)].is_inside_loop

\* No InvalidAssignmentType: the lowering reported no invalid assignment.
NoCause == [k |-> "None", name |-> 0]

ContextOver(expr_type, block) ==
    [ expr_type |-> expr_type,
      expressions |-> expressions,
      kinds |-> local_expression_kind_tracker,
      global_expressions |-> module.global_expressions,
      global_kinds |-> global_expression_kind_tracker,
      local_variables |-> local_variables,
      local_table |-> local_table,
      block |-> block,
      emitter |-> NotStarted,
      err |-> "none",
      h |-> 0, ref |-> FALSE, void |-> FALSE, has_init |-> FALSE,
      ty |-> NoType, args |-> << >>, pending |-> NoAst, size |-> 0,
      cause |-> NoCause,
      overrides |-> module.overrides,
      constants |-> module.constants,
      types |-> module.types,
      arguments |-> arguments,
      lookups |-> << >> ]

NewContext(expr_type) == ContextOver(expr_type, CurrentBlock)

\* StatementContext::as_expression
as_expression(c) == [c EXCEPT !.expr_type = "Runtime"]

\* StatementContext::as_const
StatementContext_as_const(c) == [c EXCEPT !.expr_type = "ConstantLocal"]

\* FastIndexMap::insert: a present key keeps its place and gets the new value.
IndexMap_insert(map, key, name) ==
    IF \E i \in 1..Len(map) : map[i].key = key
    THEN [i \in 1..Len(map) |-> IF map[i].key = key
                                THEN [key |-> key, name |-> name] ELSE map[i]]
    ELSE Append(map, [key |-> key, name |-> name])

\* What every statement leaves behind: the arenas, the tracker and the
\* current block as the context holds them; an Err ends the lowering.
Commit(c, opened) ==
    /\ expressions' = c.expressions
    /\ local_expression_kind_tracker' = c.kinds
    /\ module' = [module EXCEPT !.global_expressions = c.global_expressions,
                                !.overrides = c.overrides,
                                !.types = c.types]
    /\ global_expression_kind_tracker' = c.global_kinds
    /\ local_variables' = c.local_variables
    /\ frames' = [frames EXCEPT ![Len(frames)].block = c.block]
                  \o (IF c.err = "none" THEN opened ELSE << >>)
    /\ lookups' = c.lookups
    /\ nstmts' = nstmts + 1
    /\ error' = c.err
    /\ pc' = IF Ok(c) THEN "lowering" ELSE "error"

CanLower == pc = "lowering" /\ nstmts < limit

(***************************************************************************)
(* The statements of Lowerer::statement.  A declaration adds its local to  *)
(* the ast::Local arena as the parser did, and to the scope.               *)
(***************************************************************************)
NewLocal == Len(ast_locals) + 1

Declare(decl, init, ty) ==
    /\ ast_locals' = Append(ast_locals, [decl |-> decl, init |-> init.k # "None"])
    /\ visible' = visible \cup {NewLocal}

NoDeclare == UNCHANGED <<ast_locals, visible>>

Bind(id, decl, ref, h) ==
    [i \in DOMAIN local_table \cup {id} |->
        IF i = id THEN [decl |-> decl, ref |-> ref, h |-> h] ELSE local_table[i]]

let_value_keeps_its_kind(c) == c

\* The value of a `let` is not a const-expression, whatever it was lowered from.
let_value(c) == [c EXCEPT !.kinds = force_non_const(@, c.h)]

\* ast::LocalDecl::Let, up to the bindings: the value is in h.
Let(init, ty, ctx) ==
    LET finish(value, c4) == IF Ok(c4) THEN [Emitter_finish(c4) EXCEPT !.h = value] ELSE c4
        typed(value, c3) ==
            finish(value, IF ~Ok(c3) \/ ty.k = "None" THEN c3
                          ELSE IF c3.ty # resolve_inner(c3, value)
                          THEN Fail(register_type(c3, value), "InitializationTypeMismatch")
                          ELSE register_type(c3, value))
        forced(value, c2) ==
            typed(value, IF ty.k = "None" THEN c2
                         ELSE as_expression(
                                  resolve_ast_type(ty, StatementContext_as_const(c2))))
        lowered(c1) == forced(c1.h, IF Ok(c1) THEN let_value(c1) ELSE c1)
    IN  lowered(expression(init, Emitter_start(ctx)))

StatementLet(init, ty) ==
    /\ CanLower
    /\ \E c \in {Let(init, ty, NewContext("Runtime"))} :
          /\ Commit(c, << >>)
          /\ IF Ok(c)
             THEN /\ local_table' = Bind(NewLocal, "Runtime", FALSE, c.h)
                  /\ named_expressions' = IndexMap_insert(named_expressions, c.h, NewLocal)
             ELSE UNCHANGED <<local_table, named_expressions>>
    /\ Declare("let", init, ty)
    /\ UNCHANGED <<globals, arguments, result, st, lw, limit>>

is_hoistable_outside_loops_only(inside_loop, tracker, init) ==
    is_const_or_override(tracker, init)

\* Whether the initializer of a `var` goes to LocalVariable.init.
is_hoistable(inside_loop, tracker, init) ==
    ~(inside_loop \/ ~is_const_or_override(tracker, init))

\* ast::LocalDecl::Var, up to the binding: the initializer goes to
\* LocalVariable.init when it may be hoisted, and to a Store otherwise.  The
\* LocalVariable expression is in h.
Var(init, ty, inside_loop, ctx) ==
    LET store(c2, hoist, c5) ==
            IF Ok(c5) /\ c2.has_init /\ ~hoist
            THEN [c5 EXCEPT !.block = Append(@, [k |-> "Store", pointer |-> c5.h,
                                                 value |-> c2.h])]
            ELSE c5
        finish(c2, hoist, c4) == store(c2, hoist, IF Ok(c4) THEN Emitter_finish(c4) ELSE c4)
        variable(c2, hoist, c3) ==
            finish(c2, hoist,
                   IF ~Ok(c3) THEN c3
                   ELSE interrupt_emitter(c3, [k |-> "LocalVariable",
                                               h |-> Len(c3.local_variables)]))
        append(c2, hoist) ==
            variable(c2, hoist,
                     IF ~Ok(c2) THEN c2
                     ELSE [c2 EXCEPT !.local_variables =
                             Append(@, [ty |-> c2.ty, init |-> IF hoist THEN c2.h ELSE 0])])
        initialized(c2) ==
            append(c2, c2.has_init /\ is_hoistable(inside_loop, c2.kinds, c2.h))
        typed(c1) ==
            initialized(type_and_init(init, IF ty.k = "None" THEN NoType ELSE c1.ty,
                                      "Concretize", c1))
        started(c0) ==
            typed(IF ty.k = "None" THEN c0
                  ELSE as_expression(resolve_ast_type(ty, StatementContext_as_const(c0))))
    IN  started(Emitter_start(ctx))

StatementVar(init, ty) ==
    /\ CanLower
    /\ \E c \in {Var(init, ty, is_inside_loop, NewContext("Runtime"))} :
          /\ Commit(c, << >>)
          /\ IF Ok(c)
             THEN local_table' = Bind(NewLocal, "Runtime", TRUE, c.h)
             ELSE UNCHANGED local_table
    /\ Declare("var", init, ty)
    /\ UNCHANGED <<globals, arguments, result, named_expressions, st, lw, limit>>

\* ast::LocalDecl::Const, up to the bindings: the value is in h, its type in ty.
Const(init, ty, ctx) ==
    LET finish(c2) == IF Ok(c2) THEN Emitter_finish(c2) ELSE c2
        typed(c1) ==
            finish(type_and_init(init, IF ty.k = "None" THEN NoType ELSE c1.ty, "Allow",
                                 ExpressionContext_as_const(c1)))
        started(c0) ==
            typed(IF ty.k = "None" THEN c0
                  ELSE resolve_ast_type(ty, ExpressionContext_as_const(c0)))
    IN  started(Emitter_start(ctx))

name_const_of_any_type(named, ty, h, id) == IndexMap_insert(named, h, id)

\* The name of a local const: an abstract value gets none.
name_const(named, ty, h, id) ==
    IF ~is_abstract(ty) THEN IndexMap_insert(named, h, id) ELSE named

StatementConst(init, ty) ==
    /\ CanLower
    /\ \E c \in {Const(init, ty, NewContext("ConstantLocal"))} :
          /\ Commit(c, << >>)
          /\ IF Ok(c)
             THEN /\ local_table' = Bind(NewLocal, "Const", FALSE, c.h)
                  /\ named_expressions' = name_const(named_expressions, c.ty, c.h, NewLocal)
             ELSE UNCHANGED <<local_table, named_expressions>>
    /\ Declare("const", init, ty)
    /\ UNCHANGED <<globals, arguments, result, st, lw, limit>>

(***************************************************************************)
(* The AST expressions and types the statements draw from.                 *)
(***************************************************************************)
Literal(ty, v) == [k |-> "Literal", ty |-> ty, v |-> v]
Local(id) == [k |-> "Local", id |-> id]
Ident(name) == [k |-> "Ident", name |-> name]
AddrOf(e) == [k |-> "AddrOf", e |-> e]
Deref(e) == [k |-> "Deref", e |-> e]
Member(base, field) == [k |-> "Member", base |-> base, field |-> field]
Index(base, index) == [k |-> "Index", base |-> base, index |-> index]
Call(function, args) == [k |-> "Call", function |-> function, arguments |-> args]
Binary(op, left, right) == [k |-> "Binary", op |-> op, left |-> left, right |-> right]

AbstractOne == Literal("abstract-int", 1)
I32One == Literal("i32", 1)

Locals == {Local(id) : id \in visible}

\* Values: an abstract and a concrete literal, an override, every local in
\* scope, and a call of the user function.
Values == {AbstractOne, Ident("N")} \cup Locals

\* A block being lowered: what it is the block of, whether it is inside a
\* loop, its statements so far, the condition or the loop body lowered before
\* it, and the scope to restore at its end.
Frame(kind, inside, condition, body) ==
    [kind |-> kind, is_inside_loop |-> inside, block |-> << >>, condition |-> condition,
     body |-> body, visible |-> visible]

\* ast::StatementKind::Phony, up to the name: the value is in h.
Phony(expr, ctx) ==
    LET finish(c1) == IF Ok(c1) THEN [Emitter_finish(c1) EXCEPT !.h = c1.h] ELSE c1
    IN  finish(expression(expr, Emitter_start(ctx)))

StatementPhony(expr) ==
    /\ CanLower
    /\ \E c \in {Phony(expr, NewContext("Runtime"))} :
          /\ Commit(c, << >>)
          /\ named_expressions' = IF Ok(c)
                                  THEN IndexMap_insert(named_expressions, c.h, 0)
                                  ELSE named_expressions
    /\ UNCHANGED <<globals, arguments, result, local_table, ast_locals, visible, st, lw, limit>>

\* TypeInner::pointer_automatically_convertible_scalar: the leaf scalar of
\* what a pointer points to, "" when there is none.
pointer_automatically_convertible_scalar(ty) ==
    IF pointer_space_is_some(ty) /\ ty.k \in {"Scalar", "Vector", "Array"} THEN ty.s ELSE ""

\* ExpressionContext::try_automatic_conversion_for_leaf_scalar (conversion.rs)
try_automatic_conversion_for_leaf_scalar(c, goal_scalar) ==
    LET convert(ty) ==
            IF ~is_abstract(ty) \/ ty.s = goal_scalar THEN c
            ELSE IF goal_scalar \in (IF ty.s = "abstract-int" THEN {"i32", "u32", "f32"}
                                     ELSE {"f32"})
            THEN append_expr(c, [k |-> "Literal", ty |-> goal_scalar,
                                 v |-> Arena(c)[c.h].v], "Const")
            ELSE Fail(c, "AutoConversionLeafScalar")
    IN  IF ~Ok(c) THEN c ELSE convert(resolve_inner(c, c.h))

RECURSIVE invalid_assignment_type(_, _, _)
\* The name a handle is bound to in named_expressions.
binding(named, expr) ==
    named[CHOOSE i \in 1..Len(named) : named[i].key = expr].name

invalid_assignment_type_of_the_target(named, arena, expr) ==
    IF \E i \in 1..Len(named) : named[i].key = expr
    THEN [k |-> "ImmutableBinding", name |-> binding(named, expr)]
    ELSE [k |-> IF arena[expr].k = "Swizzle" THEN "Swizzle" ELSE "Other", name |-> 0]

\* StatementContext::invalid_assignment_type: why the expression is no
\* reference, following the bases of Access and AccessIndex.
invalid_assignment_type(named, arena, expr) ==
    IF \E i \in 1..Len(named) : named[i].key = expr
    THEN [k |-> "ImmutableBinding", name |-> binding(named, expr)]
    ELSE CASE arena[expr].k = "Swizzle" -> [k |-> "Swizzle", name |-> 0]
           [] arena[expr].k \in {"Access", "AccessIndex"} ->
                 invalid_assignment_type(named, arena, arena[expr].base)
           [] OTHER -> [k |-> "Other", name |-> 0]

\* Error::InvalidAssignment { span, ty }
InvalidAssignment(t) ==
    [t EXCEPT !.err = "InvalidAssignment",
              !.cause = invalid_assignment_type(named_expressions, t.expressions, t.h)]

\* ast::StatementKind::Assign; op is "" for a plain assignment.
Assign(target, op, value, ctx) ==
    LET store(t, r) ==
            IF ~Ok(r) THEN r
            ELSE [Emitter_finish(r) EXCEPT
                    !.block = Append(@, [k |-> "Store", pointer |-> t.h, value |-> r.h])]
        operation(sp) ==
            IF Ok(sp)
            THEN append_expression(sp, [k |-> "Binary", op |-> op, left |-> sp.args[1],
                                        right |-> sp.args[2]])
            ELSE sp
        loaded(right, l) == operation(IF Ok(l) THEN binary_op_splat(l, op, l.h, right) ELSE l)
        converted(t, v1) ==
            IF ~Ok(v1) THEN v1
            ELSE IF op = "" THEN store(t, v1)
            ELSE store(t, loaded(v1.h, apply_load_rule([v1 EXCEPT !.h = t.h, !.ref = TRUE])))
        lowered(t, target_scalar, v0) ==
            converted(t, IF target_scalar # ""
                         THEN try_automatic_conversion_for_leaf_scalar(v0, target_scalar)
                         ELSE v0)
        assigned(t) ==
            IF ~Ok(t) THEN t
            ELSE IF ~t.ref THEN InvalidAssignment(t)
            ELSE lowered(t,
                         IF op \in {"<<", ">>"} THEN "u32"
                         ELSE pointer_automatically_convertible_scalar(resolve_inner(t, t.h)),
                         expression_for_abstract(value, t))
    IN  assigned(expression_for_reference(target, Emitter_start(ctx)))

StatementAssign(target, op, value) ==
    /\ CanLower
    /\ \E c \in {Assign(target, op, value, NewContext("Runtime"))} : Commit(c, << >>)
    /\ UNCHANGED <<globals, arguments, result, named_expressions, local_table, ast_locals,
                   visible, st, lw, limit>>

\* ast::StatementKind::Increment / Decrement: the literal one goes through
\* interrupt_emitter; the Load and the Binary are appended to the arena
\* directly, and then recorded as Runtime.
Increment(target, op, ctx) ==
    LET store(t, value, i2) ==
            IF ~Ok(i2) THEN i2
            ELSE [Emitter_finish(i2) EXCEPT
                    !.block = Append(@, [k |-> "Store", pointer |-> t.h, value |-> value])]
        second(t, value, i1) ==
            store(t, value,
                  IF Ok(i1) THEN ExpressionKindTracker_insert(i1, value, "Runtime") ELSE i1)
        appended(t, left, a) ==
            second(t, left + 1, ExpressionKindTracker_insert(a, left, "Runtime"))
        one(t, r) ==
            IF ~Ok(r) THEN r
            ELSE appended(t, Len(r.expressions) + 1,
                          [r EXCEPT !.expressions =
                              @ \o << [k |-> "Load", pointer |-> t.h],
                                      [k |-> "Binary", op |-> op,
                                       left |-> Len(r.expressions) + 1, right |-> r.h] >>])
        checked(t, ty) ==
            IF ~(ty.k = "Scalar" /\ pointer_space_is_some(ty) /\ IsSintOrUint(ty.s))
            THEN Fail(t, "BadIncrDecrReferenceType")
            ELSE one(t, interrupt_emitter(t, [k |-> "Literal", ty |-> ty.s, v |-> 1]))
        incremented(t) ==
            IF ~Ok(t) THEN t
            ELSE IF ~t.ref THEN Fail(t, "BadIncrDecrReferenceType")
            ELSE checked(t, resolve_inner(t, t.h))
    IN  incremented(expression_for_reference(target, Emitter_start(ctx)))

StatementIncrement(target, op) ==
    /\ CanLower
    /\ \E c \in {Increment(target, op, NewContext("Runtime"))} : Commit(c, << >>)
    /\ UNCHANGED <<globals, arguments, result, named_expressions, local_table, ast_locals,
                   visible, st, lw, limit>>

\* ast::StatementKind::Call
StatementCall(function, args) ==
    /\ CanLower
    /\ \E c \in {call(function, args, Emitter_start(NewContext("Runtime")), TRUE)} :
          Commit(IF Ok(c) THEN Emitter_finish(c) ELSE c, << >>)
    /\ UNCHANGED <<globals, arguments, result, named_expressions, local_table, ast_locals,
                   visible, st, lw, limit>>

\* ast::StatementKind::Return: the value is converted to the result type when
\* the function declares one, and is left as it was lowered when it does not.
Return(value, result_ty, ctx) ==
    LET return(r) ==
            IF ~Ok(r) THEN r
            ELSE [Emitter_finish(r) EXCEPT
                    !.block = Append(@, [k |-> "Return",
                                         value |-> IF value.k = "None" THEN 0 ELSE r.h])]
        converted(expr) ==
            return(IF result_ty # NoType
                   THEN try_automatic_conversions(expr, result_ty) ELSE expr)
    IN  IF value.k = "None" THEN return(Emitter_start(ctx))
        ELSE converted(expression_for_abstract(value, Emitter_start(ctx)))

StatementReturn(value) ==
    /\ CanLower
    /\ \E c \in {Return(value, result, NewContext("Runtime"))} : Commit(c, << >>)
    /\ UNCHANGED <<globals, arguments, result, named_expressions, local_table, ast_locals,
                   visible, st, lw, limit>>

(***************************************************************************)
(* The compound statements.  Lowerer::block lowers the statements of a     *)
(* block one after the other into a fresh Block; a frame is a call of      *)
(* Lowerer::block that has not returned yet.                               *)
(***************************************************************************)
Top == frames[Len(frames)]

\* The frames once the innermost block has returned and its statement has
\* been pushed to the block around it.
Close(stmt) ==
    [i \in 1..(Len(frames) - 1) |->
        IF i = Len(frames) - 1
        THEN [frames[i] EXCEPT !.block = Append(@, stmt)]
        ELSE frames[i]]

Condition_unflushed(cond, ctx) == expression(cond, Emitter_start(ctx))

\* An expression lowered on its own emitter into the current block.
Condition(cond, ctx) ==
    LET finish(c1) == IF Ok(c1) THEN [Emitter_finish(c1) EXCEPT !.h = c1.h] ELSE c1
    IN  finish(expression(cond, Emitter_start(ctx)))

\* ast::StatementKind::Block
StatementBlock ==
    /\ CanLower
    /\ frames' = Append(frames, Frame("Block", is_inside_loop, 0, << >>))
    /\ nstmts' = nstmts + 1
    /\ UNCHANGED <<pc, error, globals, module, arguments, result, expressions,
                   local_variables, named_expressions, local_table,
                   local_expression_kind_tracker, ast_locals, visible, lookups,
                   global_expression_kind_tracker, st, lw, limit>>

\* ast::StatementKind::If: the condition, then the accept block.
StatementIf(cond) ==
    /\ CanLower
    /\ \E c \in {Condition(cond, NewContext("Runtime"))} :
          Commit(c, << Frame("If.accept", is_inside_loop, c.h, << >>) >>)
    /\ UNCHANGED <<globals, arguments, result, named_expressions, local_table, ast_locals,
                   visible, st, lw, limit>>

\* ast::StatementKind::Loop: the body is inside a loop.
StatementLoop ==
    /\ CanLower
    /\ frames' = Append(frames, Frame("Loop.body", TRUE, 0, << >>))
    /\ nstmts' = nstmts + 1
    /\ UNCHANGED <<pc, error, globals, module, arguments, result, expressions,
                   local_variables, named_expressions, local_table,
                   local_expression_kind_tracker, ast_locals, visible, lookups,
                   global_expression_kind_tracker, st, lw, limit>>

\* The end of a block statement, or of the accept block of an `if` that has
\* no `else`: the reject block is lowered to the empty block.
EndBlock ==
    /\ pc = "lowering"
    /\ Len(frames) > 1
    /\ Top.kind \in {"Block", "If.accept"}
    /\ frames' = Close(IF Top.kind = "Block"
                       THEN [k |-> "Block", body |-> Top.block]
                       ELSE [k |-> "If", condition |-> Top.condition,
                             accept |-> Top.block, reject |-> << >>])
    /\ visible' = Top.visible
    /\ UNCHANGED <<pc, error, globals, module, arguments, result, expressions,
                   local_variables, named_expressions, local_table,
                   local_expression_kind_tracker, ast_locals, nstmts, lookups,
                   global_expression_kind_tracker, st, lw, limit>>

\* The end of a loop body: the continuing block comes next, inside the loop
\* and inside the scope of the body.
EndLoopBody ==
    /\ pc = "lowering"
    /\ Len(frames) > 1
    /\ Top.kind = "Loop.body"
    /\ frames' = [frames EXCEPT ![Len(frames)] =
                     [kind |-> "Loop.continuing", is_inside_loop |-> TRUE, block |-> << >>,
                      condition |-> 0, body |-> Top.block, visible |-> Top.visible]]
    /\ UNCHANGED <<pc, error, globals, module, arguments, result, expressions,
                   local_variables, named_expressions, local_table,
                   local_expression_kind_tracker, ast_locals, visible, nstmts, lookups,
                   global_expression_kind_tracker, st, lw, limit>>

\* The end of the continuing block: break_if, when there is one, is lowered
\* into the continuing block.
break_if_ctx(break_if, ctx) ==
    IF break_if.k = "None"
    THEN Emitter_finish(Emitter_start(ctx))
    ELSE Condition(break_if, ctx)

EndLoop(break_if) ==
    /\ pc = "lowering"
    /\ Len(frames) > 1
    /\ Top.kind = "Loop.continuing"
    /\ \E c \in {break_if_ctx(break_if, ContextOver("Runtime", Top.block))} :
          /\ expressions' = c.expressions
          /\ local_expression_kind_tracker' = c.kinds
          /\ module' = [module EXCEPT !.global_expressions = c.global_expressions,
                                      !.overrides = c.overrides]
          /\ global_expression_kind_tracker' = c.global_kinds
          /\ local_variables' = c.local_variables
          /\ lookups' = c.lookups
          /\ error' = c.err
          /\ pc' = IF Ok(c) THEN "lowering" ELSE "error"
          /\ frames' = IF Ok(c)
                       THEN Close([k |-> "Loop", body |-> Top.body, continuing |-> c.block,
                                   break_if |-> IF break_if.k = "None" THEN 0 ELSE c.h])
                       ELSE frames
          /\ visible' = IF Ok(c) THEN Top.visible ELSE visible
    /\ UNCHANGED <<globals, arguments, result, named_expressions, local_table, ast_locals,
                   nstmts, st, lw, limit>>

(***************************************************************************)
(* Lowerer::function, up to the body: the arena, the local table, the      *)
(* named expressions and the tracker start empty, then every argument gets *)
(* a FunctionArgument expression.                                          *)
(***************************************************************************)
\* The types of the variables declared without an initializer: i32, an array
\* sized by the override N, and an array sized by N + the first argument.
VarTypes ==
    { AstScalar("i32"),
      AstArray(AstScalar("i32"), Ident("N")),
      AstArray(AstScalar("i32"), Binary("+", Ident("N"), Local(1))) }

\* The argument lists: (a: i32), and (a: i32, b: array<i32, a>).
ArgumentLists ==
    { << AstScalar("i32") >>,
      << AstScalar("i32"), AstArray(AstScalar("i32"), Local(1)) >> }

ResultTypes == {NoType}

\* Lowerer::function starts with empty arenas, tables and trackers.
FreshFunction ==
    /\ pc = "arguments"
    /\ error = "none"
    /\ arguments = << >>
    /\ result = NoType
    /\ expressions = << >>
    /\ local_variables = << >>
    /\ named_expressions = << >>
    /\ local_table = << >>
    /\ local_expression_kind_tracker = << >>
    /\ frames = << >>
    /\ ast_locals = << >>
    /\ visible = {}
    /\ nstmts = 0
    /\ lookups = << >>

InitFunction ==
    /\ FreshFunction
    /\ globals = PreludeGlobals
    /\ module = PreludeModule
    /\ global_expression_kind_tracker = << >>

Init == InitFunction /\ limit = MaxStmts /\ st = << >> /\ lw = << >>

\* The arguments, one after the other (the closure of lines 1319-1337).
RECURSIVE LowerArguments(_, _, _)
LowerArguments(args, i, f) ==
    IF i > Len(args) \/ ~Ok(f.c) THEN f
    ELSE LET argument(c1, expr) ==
                 IF ~Ok(c1) THEN [f EXCEPT !.c = c1]
                 ELSE LowerArguments(args, i + 1,
                        [c |-> ExpressionKindTracker_insert(
                                   [c1 EXCEPT
                                      !.arguments = Append(@, c1.ty),
                                      !.expressions =
                                          Append(@, [k |-> "FunctionArgument", i |-> i - 1])],
                                   expr, "Runtime"),
                         arguments |-> Append(f.arguments, c1.ty),
                         local_table |-> f.local_table @@
                                         (i :> [decl |-> "Runtime", ref |-> FALSE, h |-> expr]),
                         named_expressions |-> IndexMap_insert(f.named_expressions, expr, i)])
         IN  argument(resolve_ast_type(args[i], f.c), Len(f.c.expressions) + 1)

FunctionArguments(args, res) ==
    /\ pc = "arguments"
    /\ \E f \in {LowerArguments(args, 1,
                  [c |-> ContextOver("ConstantGlobal", << >>),
                   arguments |-> << >>, local_table |-> << >>,
                   named_expressions |-> << >>])} :
           /\ expressions' = f.c.expressions
           /\ local_expression_kind_tracker' = f.c.kinds
           /\ module' = [module EXCEPT !.global_expressions = f.c.global_expressions,
                                       !.overrides = f.c.overrides,
                                       !.types = f.c.types]
           /\ global_expression_kind_tracker' = f.c.global_kinds
           /\ lookups' = f.c.lookups
           /\ arguments' = f.arguments
           /\ local_table' = f.local_table
           /\ named_expressions' = f.named_expressions
           /\ error' = f.c.err
           /\ pc' = IF Ok(f.c) THEN "lowering" ELSE "error"
           /\ ast_locals' = [i \in 1..Len(args) |->
                               [decl |-> "argument", init |-> FALSE]]
           /\ visible' = IF Ok(f.c) THEN 1..Len(args) ELSE {}
    /\ result' = res
    /\ frames' = << [kind |-> "function", is_inside_loop |-> FALSE, block |-> << >>,
                     condition |-> 0, body |-> << >>, visible |-> {}] >>
    /\ UNCHANGED <<globals, local_variables, nstmts, st, lw, limit>>

\* proc::ensure_block_returns: a block that may fall off its end gets a
\* Return without a value.
RECURSIVE ensure_block_returns(_)
ensure_block_returns(block) ==
    IF block = << >> THEN << [k |-> "Return", value |-> 0] >>
    ELSE LET last == block[Len(block)] IN
         CASE last.k = "Block" ->
                [block EXCEPT ![Len(block)].body = ensure_block_returns(@)]
           [] last.k = "If" ->
                [block EXCEPT ![Len(block)].accept = ensure_block_returns(@),
                              ![Len(block)].reject = ensure_block_returns(@)]
           [] last.k \in {"Emit", "Break", "Continue", "Return", "Kill"} -> block
           [] OTHER -> Append(block, [k |-> "Return", value |-> 0])

\* Lowerer::function, after the body: the function takes the body and the
\* named expressions, in the order of their insertion, and goes to the module.
FunctionEnd ==
    /\ pc = "lowering"
    /\ Len(frames) = 1
    /\ module' = [module EXCEPT !.functions =
                     Append(@, [name |-> "f", arguments |-> arguments, result |-> result,
                                local_variables |-> local_variables,
                                expressions |-> expressions,
                                named_expressions |-> named_expressions,
                                body |-> ensure_block_returns(frames[1].block)])]
    /\ pc' = "done"
    /\ UNCHANGED <<error, globals, arguments, result, expressions, local_variables,
                   named_expressions, local_table, local_expression_kind_tracker, frames,
                   ast_locals, visible, nstmts, lookups, global_expression_kind_tracker,
                   st, lw, limit>>

BoolTrue == Literal("bool", 1)

Next ==
    \/ \E args \in ArgumentLists, res \in ResultTypes : FunctionArguments(args, res)
    \/ \E init \in Values, ty \in {NoAstType, AstScalar("i32")} : StatementLet(init, ty)
    \/ \E init \in Values, ty \in {NoAstType, AstScalar("i32")} : StatementVar(init, ty)
    \/ \E ty \in VarTypes : StatementVar(NoAst, ty)
    \/ \E init \in Values, ty \in {NoAstType, AstScalar("i32")} : StatementConst(init, ty)
    \/ \E expr \in Values : StatementPhony(expr)
    \/ StatementBlock
    \/ StatementIf(BoolTrue)
    \/ StatementLoop
    \/ EndBlock
    \/ EndLoopBody
    \/ \E break_if \in {NoAst, BoolTrue} : EndLoop(break_if)
    \/ FunctionEnd

Spec == Init /\ [][Next]_vars

(***************************************************************************)
(* The statements that write: a function f(a: i32, p: ptr<function,        *)
(* vec3<f32>>, v: vec3<f32>), with or without a result, whose body         *)
(* declares variables, assigns, increments, calls and returns.             *)
(***************************************************************************)
WriterArguments == << AstScalar("i32"), AstPointer(AstVector("f32")), AstVector("f32") >>

X == << "x" >>

Targets ==
    { Ident("g"), Ident("n"), Ident("tex"), Local(1), Member(Ident("g"), X),
      Member(Deref(Local(2)), X), Member(Local(2), X), Member(Deref(Local(3)), X) }
        \cup {Local(id) : id \in {i \in visible : ast_locals[i].decl = "var"}}

Operands == { AbstractOne, Local(1), Call("callee", << AbstractOne >>) }

NextStmt ==
    \/ \E res \in {NoType, Scalar("i32")} : FunctionArguments(WriterArguments, res)
    \/ StatementVar(AbstractOne, NoAstType)
    \/ \E target \in Targets, op \in {"", "+"}, value \in Operands :
          StatementAssign(target, op, value)
    \/ \E target \in Targets : StatementIncrement(target, "+")
    \/ \E args \in {<< AbstractOne >>, << >>} : StatementCall("callee", args)
    \/ \E value \in Operands \cup {NoAst} : StatementReturn(value)
    \/ FunctionEnd

InitStmt == InitFunction /\ limit = MaxWrites /\ st = << >> /\ lw = << >>

SpecStmt == InitStmt /\ [][NextStmt]_vars

(***************************************************************************)
(* SpecStruct: Lowerer::struct, one member per step.                       *)
(*                                                                         *)
(* Offsets and sizes are u32.  A u32 is the pair of its 16-bit halves; the *)
(* exact sum of two of them keeps the carry in hi.  Whether an overflowing *)
(* `+` panics or wraps depends on the build (overflow-checks), so both     *)
(* are behaviours of the code.  An alignment is the exponent of its power  *)
(* of two.                                                                 *)
(***************************************************************************)
MaxMembers == 3

Half == 2 ^ 16

U32(hi, lo) == [hi |-> hi, lo |-> lo]

\* The exact sum: hi is Half or more when the u32 sum overflows.
Wide(a, b) ==
    [hi |-> a.hi + b.hi + (a.lo + b.lo) \div Half, lo |-> (a.lo + b.lo) % Half]

Less(a, b) == a.hi < b.hi \/ (a.hi = b.hi /\ a.lo < b.lo)

\* u32 `+`: the wrapped sum, or a panic where the build checks overflow.
u32_add(a, b, overflow_checks) ==
    [v |-> U32(Wide(a, b).hi % Half, Wide(a, b).lo),
     panic |-> overflow_checks /\ Wide(a, b).hi >= Half]

\* Alignment::new: the alignment of a power of two, NoAlignment for any other
\* number.
NoAlignment == 0 - 1

Alignment_get(e) == IF e < 16 THEN U32(0, 2 ^ e) ELSE U32(2 ^ (e - 16), 0)

Alignment_new(n) ==
    IF \E e \in 0..31 : Alignment_get(e) = n
    THEN CHOOSE e \in 0..31 : Alignment_get(e) = n
    ELSE NoAlignment

\* self.0.get() - 1
Alignment_mask(e) == IF e <= 16 THEN U32(0, 2 ^ e - 1) ELSE U32(2 ^ (e - 16) - 1, Half - 1)

\* n & !mask
and_not_mask(n, e) ==
    IF e <= 16 THEN [n EXCEPT !.lo = @ - (@ % (2 ^ e))]
    ELSE [hi |-> n.hi - (n.hi % (2 ^ (e - 16))), lo |-> 0]

\* Alignment::round_up: (n + mask) & !mask
round_up(e, n, overflow_checks) ==
    [v |-> and_not_mask(u32_add(n, Alignment_mask(e), overflow_checks).v, e),
     panic |-> u32_add(n, Alignment_mask(e), overflow_checks).panic]

\* Layouter: the size and the alignment of a scalar and of a vec3.
Layouter_size(ty) == IF ty.k = "Vector" THEN U32(0, 12) ELSE U32(0, 4)

Layouter_alignment(ty) == IF ty.k = "Vector" THEN 4 ELSE 2

\* Lowerer::const_u32 of a literal: the value, or the error.  An i32 literal
\* holds its number, a u32 literal the pair of its halves.
const_u32(expr) ==
    CASE expr.ty = "u32" -> [v |-> expr.v, err |-> "none"]
      [] expr.ty = "i32" ->
            IF expr.v < 0 THEN [v |-> U32(0, 0), err |-> "ExpectedNonNegative"]
            ELSE [v |-> U32(0, expr.v), err |-> "none"]
      [] OTHER -> [v |-> U32(0, 0), err |-> "ExpectedConstExprConcreteIntegerScalar"]

StructError(s, e) == [s EXCEPT !.pc = "error", !.error = e]

StructPanic(s) == [s EXCEPT !.pc = "panic"]

\* One turn of the loop over the members (lines 3258-3309).  A member of the
\* result holds its offset; size and alignment are kept with it for the
\* layout to be stated.
struct_member(s, member) ==
    LET push(ty, member_size, member_alignment, offset, next) ==
            IF offset.panic \/ next.panic THEN StructPanic(s)
            ELSE [s EXCEPT
                    !.offset = next.v,
                    !.struct_alignment = IF member_alignment > @ THEN member_alignment ELSE @,
                    !.members = Append(@, [ty |-> ty, offset |-> offset.v,
                                           size |-> member_size,
                                           alignment |-> member_alignment])]
        place(ty, member_size, member_alignment, offset) ==
            push(ty, member_size, member_alignment, offset,
                 u32_add(offset.v, member_size, s.overflow_checks))
        aligned(ty, member_size, align) ==
            CASE member.align = NoAst ->
                    place(ty, member_size, Layouter_alignment(ty),
                          round_up(Layouter_alignment(ty), s.offset, s.overflow_checks))
              [] align.err # "none" -> StructError(s, align.err)
              [] Alignment_new(align.v) = NoAlignment ->
                    StructError(s, "NonPowerOfTwoAlignAttribute")
              [] Alignment_new(align.v) < Layouter_alignment(ty) ->
                    StructError(s, "AlignAttributeTooLow")
              [] OTHER ->
                    place(ty, member_size, Alignment_new(align.v),
                          round_up(Alignment_new(align.v), s.offset, s.overflow_checks))
        sized(ty, size) ==
            CASE member.size = NoAst ->
                    aligned(ty, Layouter_size(ty), const_u32(member.align))
              [] size.err # "none" -> StructError(s, size.err)
              [] Less(size.v, Layouter_size(ty)) -> StructError(s, "SizeAttributeTooLow")
              [] OTHER -> aligned(ty, size.v, const_u32(member.align))
        resolved(c) ==
            IF ~Ok(c) THEN StructError(s, c.err) ELSE sized(c.ty, const_u32(member.size))
    IN  resolved(resolve_ast_type(member.ty, ContextOver("ConstantGlobal", << >>)))

\* After the loop (lines 3311-3323): the struct type with its span.
struct_end(s) ==
    LET size == round_up(s.struct_alignment, s.offset, s.overflow_checks) IN
    IF size.panic THEN StructPanic(s)
    ELSE [s EXCEPT !.pc = "done", !.span = size.v]

StructMember(ty, size, align) ==
    /\ st.pc = "members"
    /\ Len(st.members) < limit
    /\ st' = struct_member(st, [ty |-> ty, size |-> size, align |-> align])
    /\ UNCHANGED <<fnvars, lw>>

StructEnd ==
    /\ st.pc = "members"
    /\ st.members # << >>
    /\ st' = struct_end(st)
    /\ UNCHANGED <<fnvars, lw>>

\* @size(2), @size(20), @size(4294967292u), @size(4294967295u), @size(-1)
SizeAttributes ==
    { NoAst, Literal("i32", 2), Literal("i32", 20), Literal("u32", U32(Half - 1, Half - 4)),
      Literal("u32", U32(Half - 1, Half - 1)), Literal("i32", 0 - 1) }

\* @align(2), @align(3), @align(32), @align(1.0)
AlignAttributes ==
    { NoAst, Literal("i32", 2), Literal("i32", 3), Literal("i32", 32), Literal("f32", 1) }

NextStruct ==
    \/ \E ty \in {AstScalar("u32"), AstVector("f32")},
          size \in SizeAttributes, align \in AlignAttributes : StructMember(ty, size, align)
    \/ StructEnd

InitStruct ==
    /\ InitFunction
    /\ limit = MaxMembers
    /\ lw = << >>
    /\ \E overflow_checks \in BOOLEAN :
          st = [pc |-> "members", overflow_checks |-> overflow_checks,
                offset |-> U32(0, 0), struct_alignment |-> 0, members |-> << >>,
                span |-> U32(0, 0), error |-> "none"]

SpecStruct == InitStruct /\ [][NextStruct]_vars

\* round_up over the exact (unwrapped) numbers.
RoundedUp(n, e) == and_not_mask(Wide(n, Alignment_mask(e)), e)

\* C4: a struct that struct lowering produced has size
\* round_up(last.offset + last.size, alignment), every member offset is a
\* multiple of the member's alignment, and the offsets do not decrease in
\* declaration order.
C4_StructLayout ==
    st.pc = "done" =>
        LET m == st.members
            last == m[Len(m)]
        IN  /\ st.span = RoundedUp(Wide(last.offset, last.size), st.struct_alignment)
            /\ \A i \in DOMAIN m : and_not_mask(m[i].offset, m[i].alignment) = m[i].offset
            /\ \A i, j \in DOMAIN m : i < j => ~Less(m[j].offset, m[i].offset)

(***************************************************************************)
(* Local variable declarations                                             *)
(***************************************************************************)
\* What a step added to the end of the current block.
Pushed == SubSeq(frames'[Len(frames)].block, Len(CurrentBlock) + 1,
                 Len(frames'[Len(frames)].block))

IsStore(stmt) == stmt.k = "Store"

\* A step that lowered a `var` declaration successfully.
VarLowered ==
    /\ pc = "lowering" /\ pc' = "lowering"
    /\ Len(ast_locals') = Len(ast_locals) + 1
    /\ ast_locals'[NewLocal].decl = "var"

\* C1: a `var` with an initialiser has it in LocalVariable.init, with no Store
\* pushed, exactly when the declaration is not inside a loop and the tracker
\* says the initialiser is const or override; in every other case
\* LocalVariable.init is None and exactly one Store of the initialiser to the
\* new variable is pushed to the current block.
C1_VarInitIsHoistedOrStored ==
    [][VarLowered /\ ast_locals'[NewLocal].init =>
          LET variable == local_variables'[Len(local_variables')]
              stores == SelectSeq(Pushed, IsStore)
              pointer == expressions'[local_table'[NewLocal].h]
          IN  /\ Len(local_variables') = Len(local_variables) + 1
              /\ pointer = [k |-> "LocalVariable", h |-> Len(local_variables')]
              /\ \/ /\ variable.init # 0
                    /\ stores = << >>
                    /\ ~is_inside_loop
                    /\ is_const_or_override(local_expression_kind_tracker', variable.init)
                 \/ /\ variable.init = 0
                    /\ Len(stores) = 1
                    /\ stores[1].pointer = local_table'[NewLocal].h
                    /\ \/ is_inside_loop
                       \/ ~is_const_or_override(local_expression_kind_tracker',
                                                stores[1].value)]_vars

\* A `var` with a literal initialiser, declared in an `if` inside a loop: the
\* initialiser is stored, not hoisted.
C1_Witness ==
    /\ pc = "lowering"
    /\ Len(frames) = 3
    /\ frames[2].kind = "Loop.body"
    /\ Top.kind = "If.accept"
    /\ Top.is_inside_loop
    /\ local_variables # << >>
    /\ local_variables[Len(local_variables)].init = 0
    /\ \E i \in 1..Len(Top.block) :
          /\ Top.block[i].k = "Store"
          /\ expressions[Top.block[i].value].k = "Literal"

\* C2: the handle bound to a `let` name is non-const for the tracker once the
\* statement is lowered, whatever the initialiser was, and remains so for the
\* rest of the lowering of the function.
C2_LetValueIsNeverConst ==
    \A id \in DOMAIN local_table :
        ast_locals[id].decl = "let" =>
            ~is_const(local_expression_kind_tracker, local_table[id].h)

\* A `let` bound to a literal, with a statement lowered after it.
C2_Witness ==
    \E id \in DOMAIN local_table :
        /\ ast_locals[id].decl = "let"
        /\ expressions[local_table[id].h].k = "Literal"
        /\ Len(ast_locals) > id
        /\ pc = "lowering"

(***************************************************************************)
(* Local identifiers                                                       *)
(***************************************************************************)
\* C3: a local identifier resolves in a Runtime context whatever the local is;
\* in a Constant context with locals exactly when the local is a `const`; never
\* in a Constant context without locals nor in an Override context.  A failure
\* is UnexpectedOperationInConstContext, it ends the lowering, and no
\* expression is appended after it.
C3_LocalLookupByContext ==
    \A i \in 1..Len(lookups) :
        LET l == lookups[i] IN
        /\ l.expr_type = "Runtime" => l.found
        /\ l.expr_type = "ConstantLocal" => (l.found <=> ast_locals[l.id].decl = "const")
        /\ l.expr_type \in {"ConstantGlobal", "Override"} => ~l.found
        /\ ~l.found =>
              /\ i = Len(lookups)
              /\ pc = "error"
              /\ error = "UnexpectedOperationInConstContext"
              /\ l.before = Len(expressions) + Len(module.global_expressions)

\* The size of an array type names a local after an override: the lookup is
\* made in an Override context, and fails, after the override was appended to
\* the module's global expressions.
C3_Witness ==
    /\ lookups # << >>
    /\ lookups[Len(lookups)].expr_type = "Override"
    /\ ~lookups[Len(lookups)].found
    /\ module.global_expressions # << >>
    /\ error = "UnexpectedOperationInConstContext"

(***************************************************************************)
(* Named expressions                                                       *)
(***************************************************************************)
\* The named expressions of the function being lowered and of every function
\* of the module, each with the arena its keys are handles of.
NamedExpressions ==
    {[named |-> named_expressions, arena |-> expressions]}
        \cup {[named |-> module.functions[f].named_expressions,
               arena |-> module.functions[f].expressions] : f \in DOMAIN module.functions}

\* C6: every key of a function's named expressions is a handle of that
\* function's expression arena, and the value of a local `const` of abstract
\* type is never a key.
C6_NamedExpressionsAreInTheArena ==
    /\ \A n \in NamedExpressions :
          \A i \in 1..Len(n.named) : n.named[i].key \in 1..Len(n.arena)
    /\ \A id \in DOMAIN local_table :
          /\ ast_locals[id].decl = "const"
          /\ expressions[local_table[id].h].k = "Literal"
          /\ is_abstract(Scalar(expressions[local_table[id].h].ty))
          => \A i \in 1..Len(named_expressions) :
                named_expressions[i].key # local_table[id].h

\* A function that went to the module with an argument, a local `const` of
\* abstract type and a named value lowered after it.
C6_Witness ==
    /\ pc = "done"
    /\ \E id \in DOMAIN local_table :
          /\ ast_locals[id].decl = "const"
          /\ is_abstract(Scalar(expressions[local_table[id].h].ty))
          /\ \E i \in 1..Len(named_expressions) :
                named_expressions[i].key > local_table[id].h

(***************************************************************************)
(* The expression arena and its tracker                                    *)
(***************************************************************************)
\* C5: every handle of the function's expression arena has an entry in the
\* function's expression-kind tracker, the handles appended directly to the
\* arena (arguments, call results, the Load and the Binary of an increment)
\* included.
C5_EveryHandleIsTracked ==
    DOMAIN expressions \subseteq DOMAIN local_expression_kind_tracker

\* The arena holds an argument, the Load and the Binary of `n++`, and the
\* result of a call.
C5_Witness ==
    /\ pc = "lowering"
    /\ \E h \in DOMAIN expressions : expressions[h].k = "FunctionArgument"
    /\ \E h \in DOMAIN expressions : expressions[h].k = "CallResult"
    /\ \E h \in DOMAIN expressions :
          /\ h > 3
          /\ expressions[h].k = "Binary"
          /\ expressions[h].left = h - 1 /\ expressions[h - 1].k = "Load"
          /\ expressions[h].right = h - 2 /\ expressions[h - 2].k = "Literal"
          /\ expressions[h - 3].k = "GlobalVariable"

(***************************************************************************)
(* Assignment targets                                                      *)
(***************************************************************************)
\* The expression an Access / AccessIndex chain starts from.
RECURSIVE Root(_)
Root(h) ==
    IF expressions[h].k \in {"Access", "AccessIndex"} THEN Root(expressions[h].base) ELSE h

\* The Stores of the body whose pointer is an Access / AccessIndex chain.
ChainStores ==
    IF frames = << >> THEN {}
    ELSE {frames[1].block[i] : i \in {j \in 1..Len(frames[1].block) :
            /\ frames[1].block[j].k = "Store"
            /\ expressions[frames[1].block[j].pointer].k \in {"Access", "AccessIndex"}}}

IsVariable(e) ==
    \/ e.k = "LocalVariable"
    \/ e.k = "GlobalVariable" /\ module.global_variables[e.h].space # "Handle"

\* C7 as stated: the chain of every such Store roots in a GlobalVariable
\* outside the handle address space or in a LocalVariable.
C7_StoreChainRootsInAVariable ==
    \A s \in ChainStores : IsVariable(expressions[Root(s.pointer)])

\* C7, amended: the chain roots in a GlobalVariable outside the handle address
\* space, in a LocalVariable, or in another expression of pointer type, such as
\* a pointer-typed function argument.
C7_StoreChainRootsInAPointer ==
    \A s \in ChainStores :
        \/ IsVariable(expressions[Root(s.pointer)])
        \/ /\ expressions[Root(s.pointer)].k # "GlobalVariable"
           /\ TypeOf(ContextOver("Runtime", << >>), expressions, Root(s.pointer)).p = "ptr"

\* `(*p).x = 1` was lowered: the Store goes through an AccessIndex of the
\* pointer argument.
C7_Witness ==
    \E s \in ChainStores :
        /\ expressions[Root(s.pointer)] = [k |-> "FunctionArgument", i |-> 1]
        /\ expressions[s.value].k = "Literal"

(***************************************************************************)
(* Abstract types in the lowered function                                  *)
(***************************************************************************)
\* The operands of an expression.
Operands_of(e) ==
    CASE e.k = "Load" -> {e.pointer}
      [] e.k \in {"AccessIndex"} -> {e.base}
      [] e.k = "Access" -> {e.base, e.index}
      [] e.k = "Binary" -> {e.left, e.right}
      [] e.k = "Splat" -> {e.value}
      [] e.k = "Swizzle" -> {e.vector}
      [] e.k = "As" -> {e.expr}
      [] e.k = "Math" -> {e.arg}
      [] OTHER -> {}

\* The expressions the statements of a block use; an Emit uses none.
RECURSIVE BlockUses(_)
BlockUses(block) ==
    UNION { LET s == block[i] IN
            CASE s.k = "Store" -> {s.pointer, s.value}
              [] s.k = "Return" -> {s.value} \ {0}
              [] s.k = "Call" -> ({s.arguments[j] : j \in DOMAIN s.arguments}
                                    \cup {s.result}) \ {0}
              [] s.k = "If" -> {s.condition} \cup BlockUses(s.accept) \cup BlockUses(s.reject)
              [] s.k = "Loop" -> ({s.break_if} \ {0}) \cup BlockUses(s.body)
                                    \cup BlockUses(s.continuing)
              [] s.k = "Block" -> BlockUses(s.body)
              [] OTHER -> {}
          : i \in DOMAIN block }

RECURSIVE UsedFrom(_, _)
UsedFrom(arena, used) ==
    LET more == used \cup UNION {Operands_of(arena[h]) : h \in used}
    IN  IF more = used THEN used ELSE UsedFrom(arena, more)

\* What compaction keeps of a function's arena: what the body, the named
\* expressions and the initializers of the local variables use.
ExpressionsUsed(f) ==
    UsedFrom(f.expressions,
             BlockUses(f.body)
                \cup {f.named_expressions[i].key : i \in DOMAIN f.named_expressions}
                \cup ({f.local_variables[i].init : i \in DOMAIN f.local_variables} \ {0}))

\* C8: no expression that the function sent to the module uses, the value of a
\* Return and the named expressions included, has an abstract-int or
\* abstract-float type.
C8_NoAbstractExpressionIsUsed ==
    pc = "done" =>
        LET f == module.functions[Len(module.functions)] IN
        \A h \in ExpressionsUsed(f) :
            ~is_abstract(TypeOf(ContextOver("Runtime", << >>), f.expressions, h))

(***************************************************************************)
(* Lowerer::lower: the declarations of a translation unit, in the order of *)
(* Index::visit_ordered, lowered into a fresh module.  lw is the run:      *)
(*   tu         the declarations in visit order                            *)
(*   i          the declaration the loop is at                             *)
(*   seed       the state of the hashers of this run's hash maps           *)
(*   outcomes   what lowering each visited declaration gave                *)
(*   compacted  whether compact::compact has run                           *)
(*   returned   what lower() returned                                      *)
(*   run, first, first_seed   the run's number and the run before it       *)
(***************************************************************************)
\* The declarations of a translation unit.
MaxDecls == 3

\* The states of a hasher.
Seeds == {1, 2}

EmptyModule ==
    [ types |-> << >>, global_expressions |-> << >>, constants |-> << >>,
      overrides |-> << >>, global_variables |-> << >>, functions |-> << >>,
      entry_points |-> << >> ]

\* FastHashMap::insert on ctx.globals
HashMap_insert(map, key, value) == (key :> value) @@ map

\* What a declaration leaves behind: the module and the globals as they are
\* when its arm of the match ends or returns the error.
Lowered(c, m, g) ==
    [ err |-> c.err,
      module |-> [m EXCEPT !.global_expressions = c.global_expressions,
                           !.overrides = c.overrides,
                           !.types = c.types],
      globals |-> g,
      kinds |-> c.global_kinds ]

\* GlobalContext::as_const and as_override
GlobalContext_as_const == ContextOver("ConstantGlobal", << >>)

GlobalContext_as_override(c) == [c EXCEPT !.expr_type = "Override"]

\* The explicit type of a declaration, resolved in a const context.
explicit_type(d, c) == IF d.ty = NoAstType THEN c ELSE resolve_ast_type(d.ty, c)

\* ast::GlobalDeclKind::Var
global_var(v) ==
    LET declared(c) ==
            IF ~Ok(c) THEN Lowered(c, module, globals)
            ELSE Lowered(c,
                   [module EXCEPT !.global_variables =
                       Append(@, [name |-> v.name, space |-> v.space, ty |-> c.ty,
                                  init |-> IF c.has_init THEN c.h ELSE 0])],
                   HashMap_insert(globals, v.name,
                                  [k |-> "Var", h |-> Len(module.global_variables) + 1]))
        typed(c1) ==
            declared(type_and_init(v.init, IF v.ty = NoAstType THEN NoType ELSE c1.ty,
                                   "Concretize", GlobalContext_as_override(c1)))
    IN  typed(explicit_type(v, GlobalContext_as_const))

\* ast::GlobalDeclKind::Const
global_const(d) ==
    LET declared(c) ==
            IF ~Ok(c) THEN Lowered(c, module, globals)
            ELSE Lowered(c,
                   [module EXCEPT !.constants =
                       Append(@, [name |-> d.name, ty |-> c.ty, init |-> c.h])],
                   HashMap_insert(globals, d.name,
                                  [k |-> "Const", h |-> Len(module.constants) + 1]))
        typed(c1) ==
            declared(type_and_init(d.init, IF d.ty = NoAstType THEN NoType ELSE c1.ty,
                                   "Allow", c1))
    IN  typed(explicit_type(d, GlobalContext_as_const))

\* ast::GlobalDeclKind::Override, without an @id
global_override(o) ==
    LET declared(c) ==
            IF ~Ok(c) THEN Lowered(c, module, globals)
            ELSE Lowered([c EXCEPT !.overrides =
                             Append(@, [name |-> o.name, ty |-> c.ty,
                                        init |-> IF c.has_init THEN c.h ELSE 0])],
                         module,
                         HashMap_insert(globals, o.name,
                                        [k |-> "Override", h |-> Len(c.overrides) + 1]))
        typed(c1) ==
            declared(type_and_init(o.init, IF o.ty = NoAstType THEN NoType ELSE c1.ty,
                                   "Concretize", GlobalContext_as_override(c1)))
    IN  typed(explicit_type(o, GlobalContext_as_const))

\* Lowerer::block: the statements one after the other; the first Err ends it.
RECURSIVE block(_, _, _)
block(stmts, result_ty, c) ==
    IF stmts = << >> \/ ~Ok(c) THEN c
    ELSE block(Tail(stmts), result_ty, Return(Head(stmts).value, result_ty, c))

collect_in_hash_order(named, seed) ==
    [i \in 1..Len(named) |-> named[IF seed = 1 THEN i ELSE Len(named) + 1 - i]]

\* named_expressions.into_iter().map(..).collect(): the FastIndexMap gives its
\* entries in the order of their insertion, whatever the state of the hasher.
collect(named, seed) == named

\* An ast::Function that is no entry point, and an entry point without the
\* workgroup_size attribute.
NoEntryPoint == [k |-> "None"]

NoWorkgroupSize == << >>

\* Module::eval_expr_to_u32: the expression is one of the module's arena.
eval_expr_to_u32(c, h) == eval_expr_to_u32_from(c, c.global_expressions, h)

\* Lowerer::const_u32 of an expression: the value is in c.size.
const_u32_of(expr, c) ==
    LET value(r) ==
            CASE r.err = "U32EvalError::NonConst" ->
                    Fail(r, "ExpectedConstExprConcreteIntegerScalar")
              [] r.err = "U32EvalError::Negative" -> Fail(r, "ExpectedNonNegative")
              [] OTHER -> r
        lowered(c1) == IF Ok(c1) THEN value(eval_expr_to_u32(c1, c1.h)) ELSE c1
    IN  lowered(expression(expr, c))

\* Lowerer::workgroup_size_override: the handle of the override-expression.
workgroup_size_override(size_expr, c) ==
    LET size(c1) ==
            IF ~Ok(c1) THEN c1
            ELSE IF ~IsSintOrUint(TypeInner_scalar_kind(resolve_inner(c1, c1.h)))
            THEN Fail(c1, "ExpectedConstExprConcreteIntegerScalar")
            ELSE c1
    IN  size(expression(size_expr, c))

\* The slot of workgroup_size_out that an override-expression backs.
overridden_slot == 1

workgroup_size_overrides_in_any_case(overrides) == overrides

\* The Option of workgroup_size_overrides: None (the empty tuple here) when
\* no slot holds an override-expression; 0 is the None of a slot.
workgroup_size_overrides(overrides) ==
    IF \A i \in 1..3 : overrides[i] = 0 THEN << >> ELSE overrides

\* The loop over the slots of @workgroup_size (lines 1391-1412): a slot is
\* lowered as a const-expression, and as an override-expression when that
\* meets an override.  Any other error ends the function.
RECURSIVE workgroup_size_slots(_, _, _)
workgroup_size_slots(sizes, i, w) ==
    IF i > 3 \/ ~Ok(w.c) THEN w
    ELSE IF sizes[i] = NoAst THEN workgroup_size_slots(sizes, i + 1, w)
    ELSE LET overridden(r) ==
                 IF ~Ok(r) THEN [w EXCEPT !.c = r]
                 ELSE [c |-> r, out |-> [w.out EXCEPT ![i] = overridden_slot],
                       overrides |-> [w.overrides EXCEPT ![i] = r.h]]
             slot(r) ==
                 IF Ok(r) THEN [w EXCEPT !.c = r, !.out[i] = r.size]
                 ELSE IF r.err = "ConstantEvaluatorError(OverrideExpr)"
                 THEN overridden(workgroup_size_override(
                                    sizes[i],
                                    GlobalContext_as_override([r EXCEPT !.err = "none"])))
                 ELSE [w EXCEPT !.c = r]
         IN  workgroup_size_slots(sizes, i + 1,
                                  slot(const_u32_of(sizes[i],
                                                    [w.c EXCEPT !.expr_type =
                                                                  "ConstantGlobal"])))

\* workgroup_size_info (lines 1387-1425): [0, 0, 0] and None without the
\* attribute.
workgroup_size_info(entry, c) ==
    IF entry.workgroup_size = NoWorkgroupSize
    THEN [c |-> c, out |-> << 0, 0, 0 >>, overrides |-> << 0, 0, 0 >>]
    ELSE workgroup_size_slots(entry.workgroup_size, 1,
                              [c |-> c, out |-> << 1, 1, 1 >>,
                               overrides |-> << 0, 0, 0 >>])

must_use_of_any_result(f) == f.result # NoAstType

\* LoweredGlobalDecl::Function::must_use: the function declares a result, and
\* the result carries the attribute.
must_use(f) == f.result # NoAstType /\ f.must_use

\* Lowerer::function
function(f, seed) ==
    LET lowered_function(named, result_ty, r) ==
            [name |-> f.name, arguments |-> r.arguments,
             result |-> result_ty,
             local_variables |-> r.local_variables,
             expressions |-> r.expressions,
             named_expressions |-> collect(named, seed),
             body |-> ensure_block_returns(r.block)]
        entry_point(fun, w) ==
            IF ~Ok(w.c) THEN Lowered(w.c, module, globals)
            ELSE Lowered(w.c,
                   [module EXCEPT !.entry_points =
                       Append(@, [name |-> f.name, stage |-> f.entry_point.stage,
                                  workgroup_size |-> w.out,
                                  workgroup_size_overrides |->
                                      workgroup_size_overrides(w.overrides),
                                  function |-> fun])],
                   HashMap_insert(globals, f.name, [k |-> "EntryPoint"]))
        declared(named, result_ty, r) ==
            IF ~Ok(r) THEN Lowered(r, module, globals)
            ELSE IF f.entry_point # NoEntryPoint
            THEN entry_point(lowered_function(named, result_ty, r),
                             workgroup_size_info(f.entry_point, r))
            ELSE Lowered(r,
                   [module EXCEPT !.functions =
                       Append(@, lowered_function(named, result_ty, r))],
                   HashMap_insert(globals, f.name,
                                  [k |-> "Function", h |-> Len(module.functions) + 1,
                                   must_use |-> must_use(f)]))
        body(a, result_ty, c) ==
            declared(a.named_expressions, result_ty,
                     block(f.body, result_ty,
                           [c EXCEPT !.expr_type = "Runtime",
                                     !.local_table = a.local_table,
                                     !.block = << >>]))
        returns(a, c) ==
            IF ~Ok(c) THEN Lowered(c, module, globals)
            ELSE body(a, IF f.result = NoAstType THEN NoType ELSE c.ty, c)
        arguments_of(a) ==
            returns(a, IF f.result = NoAstType THEN a.c ELSE resolve_ast_type(f.result, a.c))
    IN  arguments_of(LowerArguments(f.arguments, 1,
                       [c |-> GlobalContext_as_const, arguments |-> << >>,
                        local_table |-> << >>, named_expressions |-> << >>]))

lower_decl_naming_first(d, seed) ==
    LET named(g) ==
            IF g.err = "none" THEN g
            ELSE [g EXCEPT !.globals = HashMap_insert(@, d.name, [k |-> d.kind, h |-> 0])]
    IN  named(CASE d.kind = "Fn" -> function(d, seed)
                [] d.kind = "Var" -> global_var(d)
                [] d.kind = "Const" -> global_const(d)
                [] d.kind = "Override" -> global_override(d))

\* The arm of the match in Lowerer::lower for one declaration.
lower_decl(d, seed) ==
    CASE d.kind = "Fn" -> function(d, seed)
      [] d.kind = "Var" -> global_var(d)
      [] d.kind = "Const" -> global_const(d)
      [] d.kind = "Override" -> global_override(d)

after_decl_recovering(s, g) ==
    [s EXCEPT !.i = @ + 1,
              !.outcomes = Append(@, IF g.err = "none" THEN "ok" ELSE g.err)]

\* The `?` of every arm: an Err is what lower() returns, at once.
after_decl(s, g) ==
    IF g.err = "none"
    THEN [s EXCEPT !.i = @ + 1, !.outcomes = Append(@, "ok")]
    ELSE [s EXCEPT !.pc = "returned",
                   !.returned = [k |-> "Err", error |-> g.err],
                   !.outcomes = Append(@, g.err)]

\* One turn of the loop over visit_ordered().
LowerDecl ==
    /\ lw.pc = "lowering"
    /\ lw.i <= Len(lw.tu)
    /\ \E g \in {lower_decl(lw.tu[lw.i], lw.seed)} :
          /\ module' = g.module
          /\ globals' = g.globals
          /\ global_expression_kind_tracker' = g.kinds
          /\ lw' = after_decl(lw, g)
    /\ UNCHANGED <<pc, error, arguments, result, expressions, local_variables,
                   named_expressions, local_table, local_expression_kind_tracker, frames,
                   ast_locals, visible, nstmts, lookups, st, limit>>

(***************************************************************************)
(* compact::compact: the expressions and types nothing uses leave the      *)
(* arenas and the handles that remain are renumbered in their order.       *)
(***************************************************************************)
\* The handle of a kept expression after the unused ones before it have left.
Remap(used, h) == IF h = 0 THEN 0 ELSE Cardinality({u \in used : u <= h})

compact_expression(e, used) ==
    CASE e.k = "Load" -> [e EXCEPT !.pointer = Remap(used, @)]
      [] e.k = "AccessIndex" -> [e EXCEPT !.base = Remap(used, @)]
      [] e.k = "Access" -> [e EXCEPT !.base = Remap(used, @), !.index = Remap(used, @)]
      [] e.k = "Binary" -> [e EXCEPT !.left = Remap(used, @), !.right = Remap(used, @)]
      [] e.k = "Splat" -> [e EXCEPT !.value = Remap(used, @)]
      [] e.k = "Swizzle" -> [e EXCEPT !.vector = Remap(used, @)]
      [] OTHER -> e

compact_arena(arena, used) ==
    [i \in 1..Cardinality(used) |->
        compact_expression(arena[CHOOSE h \in used : Remap(used, h) = i], used)]

\* HandleMap::adjust_range: an Emit covers what is left of its range.
adjust_range(s, used) ==
    LET kept == {h \in used : s.first <= h /\ h <= s.last}
    IN  IF kept = {} THEN Emit(1, 0)
        ELSE Emit(Remap(used, CHOOSE h \in kept : \A o \in kept : h <= o),
                  Remap(used, CHOOSE h \in kept : \A o \in kept : o <= h))

RECURSIVE compact_block(_, _)
compact_block(stmts, used) ==
    [i \in DOMAIN stmts |->
        LET s == stmts[i] IN
        CASE s.k = "Emit" -> adjust_range(s, used)
          [] s.k = "Return" -> [s EXCEPT !.value = Remap(used, @)]
          [] s.k = "Store" -> [s EXCEPT !.pointer = Remap(used, @),
                                        !.value = Remap(used, @)]
          [] s.k = "Block" -> [s EXCEPT !.body = compact_block(@, used)]
          [] s.k = "If" -> [s EXCEPT !.condition = Remap(used, @),
                                     !.accept = compact_block(@, used),
                                     !.reject = compact_block(@, used)]
          [] OTHER -> s]

compact_function(f) ==
    LET kept(used) ==
            [f EXCEPT !.expressions = compact_arena(@, used),
                      !.named_expressions =
                          [i \in DOMAIN @ |-> [key |-> Remap(used, @[i].key),
                                               name |-> @[i].name]],
                      !.body = compact_block(@, used)]
    IN  kept(ExpressionsUsed(f))

\* The types the declarations of a module name.
TypesUsed(m) ==
    {m.constants[i].ty : i \in DOMAIN m.constants}
      \cup {m.overrides[i].ty : i \in DOMAIN m.overrides}
      \cup {m.global_variables[i].ty : i \in DOMAIN m.global_variables}
      \cup UNION {{m.functions[i].arguments[j] : j \in DOMAIN m.functions[i].arguments}
                    \cup {m.functions[i].result}
                  : i \in DOMAIN m.functions}

compact(m) ==
    LET kept(used, types) ==
            [m EXCEPT !.types = SelectSeq(@, LAMBDA t : t \in types),
                      !.global_expressions = compact_arena(@, used),
                      !.constants = [i \in DOMAIN @ |-> [@[i] EXCEPT !.init = Remap(used, @)]],
                      !.overrides = [i \in DOMAIN @ |-> [@[i] EXCEPT !.init = Remap(used, @)]],
                      !.global_variables =
                          [i \in DOMAIN @ |-> [@[i] EXCEPT !.init = Remap(used, @)]],
                      !.functions = [i \in DOMAIN @ |-> compact_function(@[i])]]
    IN  kept(UsedFrom(m.global_expressions,
                      ({m.constants[i].init : i \in DOMAIN m.constants}
                         \cup {m.overrides[i].init : i \in DOMAIN m.overrides}
                         \cup {m.global_variables[i].init : i \in DOMAIN m.global_variables})
                      \ {0}),
             TypesUsed(m))

\* The end of Lowerer::lower: the module is compacted and returned.
LowerEnd ==
    /\ lw.pc = "lowering"
    /\ lw.i > Len(lw.tu)
    /\ \E m \in {compact(module)} :
          /\ module' = m
          /\ lw' = [lw EXCEPT !.pc = "returned", !.compacted = TRUE,
                              !.returned = [k |-> "Ok", module |-> m]]
    /\ UNCHANGED <<pc, error, globals, arguments, result, expressions, local_variables,
                   named_expressions, local_table, local_expression_kind_tracker, frames,
                   ast_locals, visible, nstmts, lookups, global_expression_kind_tracker,
                   st, limit>>

\* A run of lower() over the translation unit tu in a process whose hashers
\* are in the state seed.
Run(tu, run, seed, first) ==
    [ pc |-> "lowering", tu |-> tu, i |-> 1, run |-> run, seed |-> seed,
      outcomes |-> << >>, compacted |-> FALSE, returned |-> [k |-> "None"],
      first |-> first ]

\* lower() is called again on the same translation unit and visit order.
LowerAgain ==
    /\ lw.pc = "returned"
    /\ lw.run = 1
    /\ module' = EmptyModule
    /\ globals' = << >>
    /\ global_expression_kind_tracker' = << >>
    /\ \E seed \in Seeds :
          lw' = Run(lw.tu, 2, seed,
                    [returned |-> lw.returned, outcomes |-> lw.outcomes,
                     globals |-> globals, seed |-> lw.seed])
    /\ UNCHANGED <<pc, error, arguments, result, expressions, local_variables,
                   named_expressions, local_table, local_expression_kind_tracker, frames,
                   ast_locals, visible, nstmts, lookups, st, limit>>

\* The declarations the translation units are made of:
\*   const K = 1;                          const B: i32 = 1.0;
\*   override O: i32;                      var<private> g = 1;
\*   fn id(x: i32) -> i32 { return x; }    fn two(x: i32, y: f32) -> i32 { return 1; }
\*   fn bad(x: i32) -> i32 { return &x; }
Decls ==
    { [kind |-> "Const", name |-> "K", ty |-> NoAstType, init |-> AbstractOne],
      [kind |-> "Const", name |-> "B", ty |-> AstScalar("i32"),
       init |-> Literal("abstract-float", 1)],
      [kind |-> "Override", name |-> "O", ty |-> AstScalar("i32"), init |-> NoAst],
      [kind |-> "Var", name |-> "g", space |-> "Private", ty |-> NoAstType,
       init |-> AbstractOne],
      [kind |-> "Fn", name |-> "id", arguments |-> << AstScalar("i32") >>,
       result |-> AstScalar("i32"), must_use |-> TRUE, entry_point |-> NoEntryPoint,
       body |-> << [value |-> Local(1)] >>],
      [kind |-> "Fn", name |-> "two", arguments |-> << AstScalar("i32"), AstScalar("f32") >>,
       result |-> AstScalar("i32"), must_use |-> FALSE, entry_point |-> NoEntryPoint,
       body |-> << [value |-> AbstractOne] >>],
      [kind |-> "Fn", name |-> "bad", arguments |-> << AstScalar("i32") >>,
       result |-> AstScalar("i32"), must_use |-> FALSE, entry_point |-> NoEntryPoint,
       body |-> << [value |-> AddrOf(Local(1))] >>] }

\* The translation units: up to n declarations, each declared once.
TranslationUnits(n) ==
    {tu \in UNION {[1..len -> Decls] : len \in 1..n} :
        \A i, j \in DOMAIN tu : i # j => tu[i].name # tu[j].name}

NextLower ==
    \/ LowerDecl
    \/ LowerEnd
    \/ LowerAgain

InitLower ==
    /\ FreshFunction
    /\ globals = << >>
    /\ module = EmptyModule
    /\ global_expression_kind_tracker = << >>
    /\ limit = MaxDecls
    /\ st = << >>
    /\ \E tu \in TranslationUnits(MaxDecls), seed \in Seeds :
          lw = Run(tu, 1, seed, [k |-> "None"])

SpecLower == InitLower /\ [][NextLower]_vars

C10_LowerIsAllOrNothing ==
    /\ \A j \in DOMAIN lw.outcomes :
          lw.outcomes[j] # "ok" =>
              /\ j = Len(lw.outcomes)
              /\ lw.pc = "returned"
              /\ lw.returned = [k |-> "Err", error |-> lw.outcomes[j]]
    /\ lw.returned.k = "Err" =>
          /\ lw.outcomes # << >>
          /\ lw.outcomes[Len(lw.outcomes)] = lw.returned.error
          /\ lw.i = Len(lw.outcomes)
          /\ ~lw.compacted
    /\ lw.returned.k = "Ok" =>
          /\ Len(lw.outcomes) = Len(lw.tu)
          /\ \A j \in DOMAIN lw.outcomes : lw.outcomes[j] = "ok"
          /\ lw.compacted
    /\ lw.compacted => lw.returned.k = "Ok"
    /\ lw.pc = "returned" <=> lw.returned.k # "None"

\* The second of three declarations failed after the first one had gone to
\* the module, and lower() has returned its error.
C10_Witness ==
    /\ lw.pc = "returned"
    /\ lw.returned = [k |-> "Err", error |-> "NotReference"]
    /\ Len(lw.tu) = 3
    /\ lw.outcomes = << "ok", "NotReference" >>
    /\ Len(module.constants) = 1
    /\ module.functions = << >>

(***************************************************************************)
(* ast::StatementKind::Switch.  The cases of the model have empty bodies;  *)
(* st keeps the AST of the statement.                                      *)
(***************************************************************************)
\* The selector and the case values, lowered in their order; args holds them.
RECURSIVE switch_exprs(_, _, _)
switch_exprs(exprs, i, c) ==
    IF exprs = << >> \/ ~Ok(c) THEN [c EXCEPT !.args = << >>]
    ELSE LET rest(c1) ==
                 IF ~Ok(c1) THEN c1
                 ELSE IF resolve_inner(c1, c1.h) \notin
                            {Scalar("i32"), Scalar("u32"), Scalar("abstract-int")}
                 THEN Fail(c1, IF i = 0 THEN "InvalidSwitchSelector"
                               ELSE "InvalidSwitchCase")
                 ELSE [switch_exprs(Tail(exprs), i + 1, c1) EXCEPT !.args = << c1.h >> \o @]
         IN  rest(expression_for_abstract(Head(exprs), c))

\* for expr in &mut exprs { convert_to_leaf_scalar(expr, consensus) }
RECURSIVE switch_convert(_, _, _)
switch_convert(handles, goal, c) ==
    IF handles = << >> \/ ~Ok(c) THEN [c EXCEPT !.args = << >>]
    ELSE LET rest(c1) ==
                 IF ~Ok(c1) THEN c1
                 ELSE [switch_convert(Tail(handles), goal, c1)
                         EXCEPT !.args = << c1.h >> \o @]
         IN  rest(convert_to_leaf_scalar(c, Head(handles), goal))

\* Module::eval_expr_to_literal_from, as a SwitchValue: "" when the
\* expression is no i32 or u32 literal.
switch_value(arena, h) ==
    IF arena[h].k = "Literal" /\ arena[h].ty \in {"i32", "u32"}
    THEN [k |-> IF arena[h].ty = "i32" THEN "I32" ELSE "U32", v |-> arena[h].v]
    ELSE [k |-> "", v |-> 0]

\* The cases in their order: each takes the next converted value, or Default.
RECURSIVE switch_cases(_, _, _)
switch_cases(cases, values, c) ==
    IF cases = << >> \/ ~Ok(c) THEN [c EXCEPT !.args = << >>]
    ELSE IF Head(cases).k = "Default"
    THEN [switch_cases(Tail(cases), values, c)
            EXCEPT !.args = << [value |-> [k |-> "Default", v |-> 0], body |-> << >>,
                                fall_through |-> FALSE] >> \o @]
    ELSE IF switch_value(c.expressions, Head(values)).k = ""
    THEN Fail(c, "InvalidSwitchCase")
    ELSE [switch_cases(Tail(cases), Tail(values), c)
            EXCEPT !.args = << [value |-> switch_value(c.expressions, Head(values)),
                                body |-> << >>, fall_through |-> FALSE] >> \o @]

\* The expressions of the non-default cases.
RECURSIVE case_exprs(_)
case_exprs(cases) ==
    IF cases = << >> THEN << >>
    ELSE (IF Head(cases).k = "Default" THEN << >> ELSE << Head(cases) >>)
            \o case_exprs(Tail(cases))

abstract_consensus_kept(consensus) == consensus

\* if consensus == ABSTRACT_INT { consensus = I32 }
concretized_consensus(consensus) ==
    IF consensus = "abstract-int" THEN "i32" ELSE consensus

Switch(selector, cases, ctx) ==
    LET push(selected, c4) ==
            IF ~Ok(c4) THEN c4
            ELSE [c4 EXCEPT !.block = Append(@, [k |-> "Switch", selector |-> selected,
                                                 cases |-> c4.args])]
        lowered(c3) ==
            IF ~Ok(c3) THEN c3
            ELSE push(Head(c3.args), switch_cases(cases, Tail(c3.args), Emitter_finish(c3)))
        converted(c1, consensus) ==
            IF consensus.err >= 0 THEN Fail(c1, "SwitchCaseTypeMismatch")
            ELSE lowered(switch_convert(c1.args, concretized_consensus(consensus.scalar),
                                        c1))
        typed(c1) ==
            IF ~Ok(c1) THEN c1
            ELSE converted(c1, automatic_conversion_consensus(
                                   c1, Tail(c1.args), 1,
                                   resolve_inner(c1, Head(c1.args)).s))
    IN  typed(switch_exprs(<< selector >> \o case_exprs(cases), 0, Emitter_start(ctx)))

StatementSwitch(selector, cases) ==
    /\ CanLower
    /\ \E c \in {Switch(selector, cases, NewContext("Runtime"))} : Commit(c, << >>)
    /\ st' = [selector |-> selector, cases |-> cases]
    /\ UNCHANGED <<globals, arguments, result, named_expressions, local_table, ast_locals,
                   visible, lw, limit>>

(***************************************************************************)
(* SpecSwitch: the body of f(a: i32, b: u32, x: f32) is one switch         *)
(* statement of up to MaxCases cases.                                      *)
(***************************************************************************)
MaxCases == 2

SwitchArguments == << AstScalar("i32"), AstScalar("u32"), AstScalar("f32") >>

Default == [k |-> "Default"]

Selectors == { Local(1), Local(2), Local(3), AbstractOne }

CaseValues == { Default, AbstractOne, Literal("u32", 1), Local(1), Local(3) }

CaseLists == UNION {[1..n -> CaseValues] : n \in 0..MaxCases}

NextSwitch ==
    \/ FunctionArguments(SwitchArguments, NoType)
    \/ \E selector \in Selectors, cases \in CaseLists : StatementSwitch(selector, cases)
    \/ FunctionEnd

InitSwitch == InitFunction /\ limit = 1 /\ st = << >> /\ lw = << >>

SpecSwitch == InitSwitch /\ [][NextSwitch]_vars

\* The scalar of an expression of the switch as the source declares it.
DeclaredScalar(ast) ==
    IF ast.k = "Literal" THEN ast.ty ELSE SwitchArguments[ast.id].s

IntScalars == {"i32", "u32", "abstract-int"}

\* The scalar all of the scalars convert to: i32 for abstract-int alone.
Common(scalars) ==
    IF scalars \subseteq {"abstract-int"} THEN "i32"
    ELSE CHOOSE s \in scalars : s # "abstract-int"

\* C11: a switch whose selector is no i32, u32 or abstract-int fails with
\* InvalidSwitchSelector; else one with such a case value fails with
\* InvalidSwitchCase; else one that mixes i32 and u32 fails with
\* SwitchCaseTypeMismatch; else, when it is lowered (and it is when the case
\* values are literals), the block ends with a Switch whose selector has the
\* common scalar (i32 when all were abstract) and whose non-default case
\* values, in the order of the cases, all have that scalar's variant.
C11_SwitchValuesHaveTheConsensusScalar ==
    st # << >> =>
        LET values == case_exprs(st.cases)
            scalars == {DeclaredScalar(st.selector)}
                          \cup {DeclaredScalar(values[i]) : i \in DOMAIN values}
            f == Top.block
            switch == f[Len(f)]
        IN  IF DeclaredScalar(st.selector) \notin IntScalars
            THEN error = "InvalidSwitchSelector"
            ELSE IF ~(scalars \subseteq IntScalars)
            THEN error = "InvalidSwitchCase"
            ELSE IF {"i32", "u32"} \subseteq scalars
            THEN error = "SwitchCaseTypeMismatch"
            ELSE /\ error \in {"none", "InvalidSwitchCase"}
                 /\ (\A i \in DOMAIN values : values[i].k = "Literal") => error = "none"
                 /\ error = "none" =>
                       /\ f # << >>
                       /\ switch.k = "Switch"
                       /\ TypeOf(ContextOver("Runtime", << >>), expressions, switch.selector)
                             = Scalar(Common(scalars))
                       /\ Len(switch.cases) = Len(st.cases)
                       /\ \A i \in DOMAIN st.cases :
                             switch.cases[i].value.k =
                                 IF st.cases[i].k = "Default" THEN "Default"
                                 ELSE IF Common(scalars) = "i32" THEN "I32" ELSE "U32"

\* `switch 1 { case 1u: {} case 1: {} }` on the way to the module: the
\* selector and the second case value were converted to u32.
C11_Witness ==
    /\ st # << >>
    /\ st.selector = AbstractOne
    /\ st.cases = << Literal("u32", 1), AbstractOne >>
    /\ error = "none"
    /\ Top.block[Len(Top.block)].k = "Switch"
    /\ expressions[Top.block[Len(Top.block)].selector] = [k |-> "Literal", ty |-> "u32", v |-> 1]
    /\ Top.block[Len(Top.block)].cases[2].value = [k |-> "U32", v |-> 1]

(***************************************************************************)
(* SpecCall: one call, as a statement, as the value of a phony assignment  *)
(* or as the initializer of a local const, in a function f(x: i32, y: i64) *)
(* of a module that declares the atomics a32 and a64, the variable n, the  *)
(* override N, the constant K, the alias T = i32, the entry point main and *)
(* the functions callee, pure (@must_use) and proc (no result); in one of  *)
(* the two modules the user also declared a function named abs.            *)
(***************************************************************************)
MaxArgs == 2

CallFunction(name, res) ==
    [name |-> name, arguments |-> << Scalar("i32") >>, result |-> res,
     local_variables |-> << >>,
     expressions |-> << [k |-> "FunctionArgument", i |-> 0] >>,
     named_expressions |-> << [key |-> 1, name |-> 1] >>,
     body |-> IF res = NoType THEN << [k |-> "Return", value |-> 0] >>
              ELSE << [k |-> "Return", value |-> 1] >>]

CallModule(shadowing) ==
    [ types |-> << Scalar("i32"), Atomic("i32"), Atomic("i64") >>,
      global_expressions |-> << [k |-> "Literal", ty |-> "i32", v |-> 1] >>,
      constants |-> << [name |-> "K", ty |-> Scalar("i32"), init |-> 1] >>,
      overrides |-> << [name |-> "N", ty |-> Scalar("i32"), init |-> 0] >>,
      global_variables |-> << [name |-> "a32", space |-> "WorkGroup", ty |-> Atomic("i32"),
                               init |-> 0],
                              [name |-> "a64", space |-> "WorkGroup", ty |-> Atomic("i64"),
                               init |-> 0],
                              [name |-> "n", space |-> "Private", ty |-> Scalar("i32"),
                               init |-> 0] >>,
      functions |-> << CallFunction("callee", Scalar("i32")),
                       CallFunction("pure", Scalar("i32")),
                       CallFunction("proc", NoType) >>
                    \o (IF shadowing THEN << CallFunction("abs", Scalar("i32")) >>
                        ELSE << >>) ]

\* The functions as the source declares them: fn callee(i32) -> i32,
\* @must_use fn pure(i32) -> i32, fn proc(i32) and fn abs(i32) -> i32.
CallDecls ==
    << [name |-> "callee", result |-> AstScalar("i32"), must_use |-> FALSE],
       [name |-> "pure", result |-> AstScalar("i32"), must_use |-> TRUE],
       [name |-> "proc", result |-> NoAstType, must_use |-> FALSE],
       [name |-> "abs", result |-> AstScalar("i32"), must_use |-> FALSE] >>

CallGlobals(shadowing) ==
    [ a32 |-> [k |-> "Var", h |-> 1],
      a64 |-> [k |-> "Var", h |-> 2],
      n |-> [k |-> "Var", h |-> 3],
      N |-> [k |-> "Override", h |-> 1],
      K |-> [k |-> "Const", h |-> 1],
      T |-> [k |-> "Type", h |-> 1],
      main |-> [k |-> "EntryPoint"],
      callee |-> [k |-> "Function", h |-> 1, must_use |-> must_use(CallDecls[1])],
      pure |-> [k |-> "Function", h |-> 2, must_use |-> must_use(CallDecls[2])],
      proc |-> [k |-> "Function", h |-> 3, must_use |-> must_use(CallDecls[3])] ]
    @@ (IF shadowing
        THEN [name \in {"abs"} |->
                [k |-> "Function", h |-> 4, must_use |-> must_use(CallDecls[4])]]
        ELSE << >>)

CallerArguments == << AstScalar("i32"), AstScalar("i64") >>

CallNames ==
    {"atomicAdd", "atomicMin", "atomicMax", "abs", "workgroupBarrier", "callee", "pure",
     "proc", "T", "K", "N", "n", "main", "nothing"}

CallArgs ==
    { AddrOf(Ident("a32")), AddrOf(Ident("a64")), Local(1), Local(2), Literal("i32", 1),
      Binary("+", Local(1), Local(1)), Ident("nothing") }

CallArgLists == UNION {[1..n -> CallArgs] : n \in 0..MaxArgs}

\* What was called and where: the statement the parser produced.
Site(site, fname, args) == [site |-> site, function |-> fname, arguments |-> args]

\* ast::StatementKind::Call
CallStatement(fname, args) ==
    /\ CanLower
    /\ \E c \in {call(fname, args, Emitter_start(NewContext("Runtime")), TRUE)} :
          Commit(IF Ok(c) THEN Emitter_finish(c) ELSE c, << >>)
    /\ st' = Site("statement", fname, args)
    /\ UNCHANGED <<globals, arguments, result, named_expressions, local_table, ast_locals,
                   visible, lw, limit>>

\* ast::StatementKind::Phony of a call
CallPhony(fname, args) ==
    /\ CanLower
    /\ \E c \in {Phony(Call(fname, args), NewContext("Runtime"))} :
          /\ Commit(c, << >>)
          /\ named_expressions' = IF Ok(c)
                                  THEN IndexMap_insert(named_expressions, c.h, 0)
                                  ELSE named_expressions
    /\ st' = Site("phony", fname, args)
    /\ UNCHANGED <<globals, arguments, result, local_table, ast_locals, visible, lw, limit>>

\* ast::LocalDecl::Const of a call
CallConst(fname, args) ==
    /\ CanLower
    /\ \E c \in {Const(Call(fname, args), NoAstType, NewContext("ConstantLocal"))} :
          /\ Commit(c, << >>)
          /\ IF Ok(c)
             THEN /\ local_table' = Bind(NewLocal, "Const", FALSE, c.h)
                  /\ named_expressions' = name_const(named_expressions, c.ty, c.h, NewLocal)
             ELSE UNCHANGED <<local_table, named_expressions>>
    /\ Declare("const", Call(fname, args), NoAstType)
    /\ st' = Site("const", fname, args)
    /\ UNCHANGED <<globals, arguments, result, lw, limit>>

NextCall ==
    \/ FunctionArguments(CallerArguments, NoType)
    \/ \E fname \in CallNames, args \in CallArgLists : CallStatement(fname, args)
    \/ \E fname \in CallNames, args \in CallArgLists : CallPhony(fname, args)
    \/ \E fname \in CallNames, args \in CallArgLists : CallConst(fname, args)
    \/ FunctionEnd

InitCall ==
    /\ FreshFunction
    /\ \E shadowing \in BOOLEAN :
          /\ globals = CallGlobals(shadowing)
          /\ module = CallModule(shadowing)
    /\ global_expression_kind_tracker = << "Const" >>
    /\ limit = 1
    /\ st = << >>
    /\ lw = << >>

SpecCall == InitCall /\ [][NextCall]_vars

\* The type of an argument of the call as the source declares it.
DeclaredType(ast) ==
    CASE ast.k = "Local" -> Scalar(CallerArguments[ast.id].s)
      [] ast.k = "Literal" -> Scalar(ast.ty)
      [] ast.k = "Binary" -> Scalar(CallerArguments[ast.left.id].s)
      [] ast.k = "AddrOf" -> Pointer(Atomic(IF ast.e.name = "a32" THEN "i32" ELSE "i64"))
      [] OTHER -> NoType

IsAtomicCall == st # << >> /\ AtomicFunction_map(st.function) # ""

\* C12: an atomic built-in given a pointer to an atomic and a value is lowered
\* wherever a runtime expression may stand, and the block then ends with its
\* Atomic statement.  The statement has no result exactly when the value is
\* an 8-byte scalar, the operation is min or max and the call is a statement;
\* otherwise its result is the newest expression of the arena, an
\* AtomicResult with comparison = false and the type of the value operand,
\* which no Emit covers.
C12_AtomicResultIsNoneOnlyFor64BitMinMaxStatements ==
    IsAtomicCall =>
        LET f == Top.block
            atomic == f[Len(f)]
            value == st.arguments[2]
            none == /\ st.site = "statement"
                    /\ st.function \in {"atomicMin", "atomicMax"}
                    /\ DeclaredType(value) \in {Scalar("i64"), Scalar("u64")}
        IN  /\ ( /\ st.site # "const"
                 /\ Len(st.arguments) = 2
                 /\ st.arguments[1].k = "AddrOf"
                 /\ st.arguments[2].k # "Ident" ) => error = "none"
            /\ error = "none" =>
                  /\ f # << >>
                  /\ atomic.k = "Atomic"
                  /\ atomic.fun = AtomicFunction_map(st.function)
                  /\ IF none
                     THEN /\ atomic.result = 0
                          /\ \A h \in DOMAIN expressions : expressions[h].k # "AtomicResult"
                     ELSE /\ atomic.result = Len(expressions)
                          /\ expressions[atomic.result] =
                                [k |-> "AtomicResult", ty |-> DeclaredType(value),
                                 comparison |-> FALSE]
                          /\ atomic.result \notin {atomic.pointer, atomic.value}
                          /\ \A i \in DOMAIN f :
                                f[i].k = "Emit" =>
                                    atomic.result \notin f[i].first..f[i].last

\* `atomicMax(&a64, y);` as a statement: the Atomic statement has no result.
C12_Witness ==
    /\ IsAtomicCall
    /\ st = Site("statement", "atomicMax", << AddrOf(Ident("a64")), Local(2) >>)
    /\ error = "none"
    /\ Top.block[Len(Top.block)].k = "Atomic"
    /\ Top.block[Len(Top.block)].result = 0

BuiltinNames == {"abs", "atomicAdd", "atomicMin", "atomicMax"} \cup Barriers

StatementKinds(f) == {f[i].k : i \in DOMAIN f}

ExpressionKinds == {expressions[h].k : h \in DOMAIN expressions}

\* C14: the name of a call is looked up in the globals first.  A type there
\* makes the call a construction (a conversion, a zero value or the literal
\* either evaluates to), a const, override or var fails with
\* Unexpected(Function), an entry point with CalledEntryPoint, and a function
\* gives a Call statement of that function, whatever built-in has the same
\* name.  A name that is no global is a built-in when there is one, and then
\* no Call statement is made (the built-in's expression or statement is, or
\* the literal it evaluates to); else the call fails with UnknownIdent, as
\* only a call with an unknown name among its arguments does otherwise.
C14_GlobalsShadowBuiltins ==
    st # << >> =>
        LET f == Top.block
            lowered == StatementKinds(f) \cup ExpressionKinds
            builtins == {"Atomic", "AtomicResult", "Barrier", "Math"}
            unknown_argument == \E i \in DOMAIN st.arguments : st.arguments[i].k = "Ident"
        IN  IF st.function \in DOMAIN globals
            THEN /\ lowered \cap builtins = {}
                 /\ error = "UnknownIdent" => unknown_argument
                 /\ CASE globals[st.function].k = "Type" ->
                            /\ "Call" \notin lowered
                            /\ error = "none" =>
                                  expressions[Len(expressions)].k \in {"As", "ZeroValue", "Literal"}
                            /\ Len(st.arguments) = 0 => error = "none"
                      [] globals[st.function].k \in {"Const", "Override", "Var"} ->
                            error = "Unexpected(Function)"
                      [] globals[st.function].k = "EntryPoint" ->
                            error = "CalledEntryPoint"
                      [] globals[st.function].k = "Function" ->
                            /\ error = "none" =>
                                  /\ f # << >>
                                  /\ f[Len(f)].k = "Call"
                                  /\ f[Len(f)].function = globals[st.function].h
                            /\ ( /\ st.site = "phony"
                                 /\ st.function # "proc"
                                 /\ \A i \in DOMAIN st.arguments :
                                       st.arguments[i].k # "Ident" ) =>
                                  error = "none"
            ELSE IF st.function \in BuiltinNames
            THEN /\ "Call" \notin lowered
                 /\ error = "UnknownIdent" => unknown_argument
                 /\ error = "none" =>
                       \/ lowered \cap builtins # {}
                       \/ expressions[Len(expressions)].k = "Literal"
            ELSE error = "UnknownIdent"

\* `_ = abs(x);` in the module that declares fn abs: a Call of the user's
\* function, and no Math expression.
C14_Witness ==
    /\ st # << >>
    /\ st = Site("phony", "abs", << Local(1) >>)
    /\ "abs" \in DOMAIN globals
    /\ error = "none"
    /\ Top.block[Len(Top.block)] =
          [k |-> "Call", function |-> 4, arguments |-> << 1 >>, result |-> 3]
    /\ "Math" \notin ExpressionKinds

IsUserCall == st # << >> /\ st.function \in {"callee", "pure", "proc"}

\* C20: of callee, pure and proc only pure declares a result that carries
\* must_use.  A call of it as a statement whose arguments lower fails with
\* FunctionMustUseUnused, and no Call statement is pushed; as the value of a
\* phony assignment it is lowered to a Call.  callee and proc never fail with
\* that error, and their calls as statements are lowered to a Call.
C20_MustUseCallIsNoStatement ==
    IsUserCall /\ (\A i \in DOMAIN st.arguments : st.arguments[i].k # "Ident") =>
        LET called == "Call" \in StatementKinds(Top.block) IN
        IF st.function = "pure" /\ st.site = "statement"
        THEN error = "FunctionMustUseUnused" /\ ~called
        ELSE /\ error # "FunctionMustUseUnused"
             /\ st.site = "statement" => error = "none" /\ called
             /\ st.site = "phony" /\ st.function # "proc" => error = "none" /\ called

\* `pure(x);` as a statement: FunctionMustUseUnused, and an empty block.
C20_Witness ==
    /\ IsUserCall
    /\ st = Site("statement", "pure", << Local(1) >>)
    /\ error = "FunctionMustUseUnused"
    /\ Top.block = << >>

(***************************************************************************)
(* SpecContext: the contexts of the lowering pass and their derivations.   *)
(* Lowerer::function makes a StatementContext; every as_* method gives the *)
(* next context, and an expression may be lowered in any expression        *)
(* context that was derived.  st.path holds the contexts derived so far,   *)
(* the last of them the current one; "Statement" and "Global" stand for    *)
(* StatementContext and GlobalContext, the other four for the              *)
(* ExpressionContext of that type.                                         *)
(***************************************************************************)
MaxDerivations == 3

ExpressionContextTypes == {"Runtime", "ConstantLocal", "ConstantGlobal", "Override"}

\* StatementContext::as_global and ExpressionContext::as_global
as_global(c) == [c EXCEPT !.expr_type = "Global"]

\* The as_* methods each kind of context has.
Methods(kind) ==
    CASE kind = "Statement" -> {"as_expression", "as_const", "as_global"}
      [] kind = "Global" -> {"as_const", "as_override"}
      [] OTHER -> {"as_const", "as_global"}

\* The context a method of a context gives.
Derived(c, method) ==
    CASE method = "as_expression" -> as_expression(c)
      [] method = "as_global" -> as_global(c)
      [] method = "as_override" -> GlobalContext_as_override(c)
      [] c.expr_type = "Statement" -> StatementContext_as_const(c)
      [] c.expr_type = "Global" -> [c EXCEPT !.expr_type = GlobalContext_as_const.expr_type]
      [] OTHER -> ExpressionContext_as_const(c)

Current == st.path[Len(st.path)]

Derive(method) ==
    /\ CanLower
    /\ Len(st.path) <= MaxDerivations
    /\ method \in Methods(Current)
    /\ st' = [st EXCEPT !.path = Append(@, Derived([expr_type |-> Current], method).expr_type)]
    /\ UNCHANGED <<pc, error, globals, module, arguments, result, expressions,
                   local_variables, named_expressions, local_table,
                   local_expression_kind_tracker, frames, ast_locals, visible, nstmts,
                   lookups, global_expression_kind_tracker, lw, limit>>

\* Lowerer::expression under the current context, between the start and the
\* finish of the emitter when the context has one.
Request(expr) ==
    /\ CanLower
    /\ Current \in ExpressionContextTypes
    /\ \E c \in {expression(expr, IF Current \in {"Runtime", "ConstantLocal"}
                                  THEN Emitter_start(NewContext(Current))
                                  ELSE NewContext(Current))} :
          Commit(IF Ok(c) /\ HasLocalCtx(c) THEN Emitter_finish(c) ELSE c, << >>)
    /\ st' = [st EXCEPT !.requested = expr]
    /\ UNCHANGED <<globals, arguments, result, named_expressions, local_table, ast_locals,
                   visible, lw, limit>>

\* Operations that need the runtime context.
Operations ==
    { Call("callee", << Literal("i32", 1) >>),
      Call("callee", << Local(1) >>),
      Call("workgroupBarrier", << >>),
      Call("workgroupBarrier", << Literal("i32", 1) >>),
      Call("atomicAdd", << AddrOf(Ident("a32")), Literal("i32", 1) >>),
      Call("atomicMax", << AddrOf(Ident("a64")), Literal("i64", 1) >>),
      AddrOf(Ident("n")) }

NextContext ==
    \/ FunctionArguments(CallerArguments, NoType)
    \/ \E method \in {"as_expression", "as_const", "as_global", "as_override"} :
          Derive(method)
    \/ \E expr \in Operations : Request(expr)
    \/ FunctionEnd

InitContext ==
    /\ FreshFunction
    /\ globals = CallGlobals(FALSE)
    /\ module = CallModule(FALSE)
    /\ global_expression_kind_tracker = << "Const" >>
    /\ limit = 1
    /\ st = [path |-> << "Statement" >>, requested |-> NoAst]
    /\ lw = << >>

SpecContext == InitContext /\ [][NextContext]_vars

ConstantContexts == {"ConstantLocal", "ConstantGlobal", "Override"}

\* Whether the operands of an operation are const-expressions.
ConstOperands(expr) ==
    expr.k = "Call" /\ \A i \in DOMAIN expr.arguments : expr.arguments[i].k = "Literal"

Emitted ==
    UNION {Top.block[i].first..Top.block[i].last :
             i \in {j \in DOMAIN Top.block : Top.block[j].k = "Emit"}}

\* What is appended with the emitter interrupted.
Interrupting ==
    {"Literal", "GlobalVariable", "Constant", "Override", "LocalVariable", "AtomicResult",
     "CallResult"}

MaxEmits == 2

EmitOperands ==
    { Ident("n"), Binary("+", Local(1), Ident("n")), Call("callee", << Ident("n") >>) }

EmitTargets == { Ident("n"), Member(Ident("g"), X) }

EmitCases == { << >>, << Default, Literal("i32", 1) >> }

NextEmit ==
    \/ \E res \in {NoType, Scalar("i32")} : FunctionArguments(WriterArguments, res)
    \/ \E init \in EmitOperands : StatementVar(init, NoAstType)
    \/ \E target \in EmitTargets, op \in {"", "+"}, value \in EmitOperands :
          StatementAssign(target, op, value)
    \/ \E target \in EmitTargets : StatementIncrement(target, "+")
    \/ \E value \in EmitOperands : StatementReturn(value)
    \/ \E cond \in EmitOperands : StatementIf(cond)
    \/ \E selector \in EmitOperands, cases \in EmitCases : StatementSwitch(selector, cases)
    \/ EndBlock
    \/ FunctionEnd

InitEmit == InitFunction /\ limit = MaxEmits /\ st = << >> /\ lw = << >>

SpecEmit == InitEmit /\ [][NextEmit]_vars

\* The expressions the Emit statements among the first n of a block cover.
EmittedIn(b, n) ==
    UNION {b[j].first..b[j].last : j \in {i \in 1..n : b[i].k = "Emit"}}

\* The expressions an If, a Switch, a Return or a Store takes.
Taken(s) ==
    CASE s.k = "If" -> {s.condition}
      [] s.k = "Switch" -> {s.selector}
      [] s.k = "Return" -> {s.value} \ {0}
      [] s.k = "Store" -> {s.pointer, s.value}
      [] OTHER -> {}

NeedsEmit(h) ==
    expressions[h].k \in {"Load", "Binary", "AccessIndex", "Access", "As", "Math", "Splat",
                          "Swizzle"}

\* Whether in a block, and in the blocks of its statements, whatever a
\* statement takes was emitted before the statement (in the block or before
\* the block, where `before` was) and nothing of it is emitted after.
RECURSIVE EmitsComeFirst(_, _)
EmitsComeFirst(b, before) ==
    \A i \in DOMAIN b :
        LET operands == UsedFrom(expressions, Taken(b[i]))
            emitted == before \cup EmittedIn(b, i - 1)
        IN  /\ \A h \in operands : NeedsEmit(h) => h \in emitted
            /\ operands \cap (EmittedIn(b, Len(b)) \ EmittedIn(b, i)) = {}
            /\ b[i].k = "If" =>
                  EmitsComeFirst(b[i].accept, emitted) /\ EmitsComeFirst(b[i].reject, emitted)

\* C17: in every block of the function being lowered, the Emit statements
\* that cover what an If, a Switch, a Return or a Store takes (its condition,
\* selector, value or pointer, and whatever those are computed from) stand
\* before that statement, and no Emit after it covers any of it.  The
\* condition of an `if` whose accept block is being lowered is emitted
\* already.
C17_OperandsAreEmittedBeforeTheirStatement ==
    pc \in {"lowering", "error"} =>
        \A k \in DOMAIN frames :
            LET before == UNION {EmittedIn(frames[j].block, Len(frames[j].block)) :
                                   j \in 1..(k - 1)}
            IN  /\ EmitsComeFirst(frames[k].block, before)
                /\ frames[k].kind = "If.accept" =>
                      \A h \in UsedFrom(expressions, {frames[k].condition}) :
                          NeedsEmit(h) => h \in before

\* `if x + n { n += callee(n); }`: the sum is emitted before the If, and
\* inside it the loads are emitted before the Call and the sum before the
\* Store.
C17_Witness ==
    /\ pc = "lowering"
    /\ Len(frames) = 1
    /\ Len(Top.block) = 2
    /\ Top.block[1].k = "Emit"
    /\ Top.block[2].k = "If"
    /\ {Top.block[2].accept[i].k : i \in DOMAIN Top.block[2].accept}
          = {"Emit", "Call", "Store"}
    /\ Top.block[2].accept[Len(Top.block[2].accept)].k = "Store"

(***************************************************************************)
(* SpecInit: the local `var` and `const` declarations over every           *)
(* combination of an initializer and an explicit type, in fn f(x: i32).    *)
(***************************************************************************)
MaxInits == 2

InitValues ==
    { AbstractOne, Literal("abstract-float", 1), Literal("i32", 1), Literal("f32", 1),
      Local(1) }

InitTypes == { AstScalar("i32"), AstScalar("u32"), AstScalar("f32") }

NextInit ==
    \/ FunctionArguments(<< AstScalar("i32") >>, NoType)
    \/ \E init \in InitValues \cup {NoAst}, ty \in InitTypes \cup {NoAstType} :
          StatementVar(init, ty)
    \/ \E init \in InitValues, ty \in InitTypes \cup {NoAstType} : StatementConst(init, ty)
    \/ FunctionEnd

InitInit == InitFunction /\ limit = MaxInits /\ st = << >> /\ lw = << >>

SpecInit == InitInit /\ [][NextInit]_vars

\* The scalar of an initializer as the source declares it.
InitScalar(init) == IF init.k = "Literal" THEN init.ty ELSE "i32"

\* The automatic conversions of WGSL between these scalars.
Converts(from, to) ==
    \/ from = to
    \/ from = "abstract-int" /\ to \in {"i32", "u32", "f32"}
    \/ from = "abstract-float" /\ to = "f32"

\* What type_and_init is to give: the error, the scalar of the type and
\* whether there is an initializer.
Expected(init, ty, abstract_rule) ==
    CASE init = NoAst /\ ty = NoAstType ->
            [err |-> "DeclMissingTypeAndInit", s |-> "", has_init |-> FALSE]
      [] init = NoAst -> [err |-> "none", s |-> ty.s, has_init |-> FALSE]
      [] ty = NoAstType ->
            [err |-> "none",
             s |-> IF abstract_rule = "Concretize"
                   THEN Scalar_concretize(InitScalar(init)) ELSE InitScalar(init),
             has_init |-> TRUE]
      [] Converts(InitScalar(init), ty.s) -> [err |-> "none", s |-> ty.s, has_init |-> TRUE]
      [] OTHER -> [err |-> "InitializationTypeMismatch", s |-> "", has_init |-> FALSE]

\* The initializer as it is in the arena after the step.
InitIs(h, init, s) ==
    IF init.k = "Literal"
    THEN expressions'[h] = [k |-> "Literal", ty |-> s, v |-> init.v]
    ELSE expressions'[h] = [k |-> "FunctionArgument", i |-> 0]

\* C18: a `var` (AbstractRule::Concretize) and a local `const`
\* (AbstractRule::Allow) get from type_and_init: DeclMissingTypeAndInit with
\* neither initializer nor type; with a type only that type, no initializer,
\* and no expression but the LocalVariable of the `var`; with an initializer
\* only its type, concretized for the `var` and left abstract for the `const`;
\* with both the explicit type and the initializer converted to it, or
\* InitializationTypeMismatch when it does not convert.
C18_TypeAndInit ==
    [][\A init \in InitValues \cup {NoAst}, ty \in InitTypes \cup {NoAstType} :
          /\ StatementVar(init, ty) =>
                LET e == Expected(init, ty, "Concretize")
                    variable == local_variables'[Len(local_variables')]
                    stores == SelectSeq(Pushed, IsStore)
                IN  /\ error' = e.err
                    /\ e.err = "none" =>
                          /\ Len(local_variables') = Len(local_variables) + 1
                          /\ variable.ty = Scalar(e.s)
                          /\ ~e.has_init =>
                                /\ variable.init = 0
                                /\ stores = << >>
                                /\ expressions' =
                                      Append(expressions,
                                             [k |-> "LocalVariable",
                                              h |-> Len(local_variables')])
                          /\ e.has_init /\ init.k = "Literal" =>
                                InitIs(variable.init, init, e.s)
                          /\ e.has_init /\ init.k # "Literal" =>
                                /\ Len(stores) = 1
                                /\ InitIs(stores[1].value, init, e.s)
                    /\ e.err # "none" => local_variables' = local_variables
          /\ init # NoAst /\ StatementConst(init, ty) =>
                LET e == Expected(init, ty, "Allow")
                IN  IF init.k = "Local"
                    THEN error' = "UnexpectedOperationInConstContext"
                    ELSE /\ error' = e.err
                         /\ e.err = "none" => InitIs(local_table'[NewLocal].h, init, e.s)
    ]_vars

\* `var v: f32 = 1;` lowered: the variable has the explicit type, and its
\* initializer is the literal converted to f32.
C18_Witness ==
    /\ pc = "lowering"
    /\ Len(local_variables) = 1
    /\ local_variables[1].ty = Scalar("f32")
    /\ local_variables[1].init # 0
    /\ ast_locals[Len(ast_locals)] = [decl |-> "var", init |-> TRUE]
    /\ expressions = << [k |-> "FunctionArgument", i |-> 0],
                        [k |-> "Literal", ty |-> "abstract-int", v |-> 1],
                        [k |-> "Literal", ty |-> "f32", v |-> 1],
                        [k |-> "LocalVariable", h |-> 1] >>

(***************************************************************************)
(* Array lengths and workgroup sizes: declarations of a module that has    *)
(* the overrides N: i32 and F: f32.                                        *)
(*    var<private> a: array<i32, size>;                                    *)
(*    @compute @workgroup_size(x, y, z) fn main() {}                       *)
(*    @fragment fn main() {}                                               *)
(***************************************************************************)
MaxEntries == 2

EntryModule ==
    [EmptyModule EXCEPT !.types = << Scalar("i32"), Scalar("f32") >>,
                        !.overrides = << [name |-> "N", ty |-> Scalar("i32"), init |-> 0],
                                         [name |-> "F", ty |-> Scalar("f32"), init |-> 0] >>]

EntryGlobals ==
    [ N |-> [k |-> "Override", h |-> 1],
      F |-> [k |-> "Override", h |-> 2] ]

EntryNames == << "e1", "e2", "e3", "e4" >>

\* The expressions of a length: 2, 2u, -1, 1.0f, N, N + 1, F and 1 + nothing,
\* where nothing is not declared.
SizeExprs ==
    { Literal("abstract-int", 2), Literal("u32", 2), Literal("i32", 0 - 1),
      Literal("f32", 1), Ident("N"), Binary("+", Ident("N"), I32One), Ident("F"),
      Binary("+", I32One, Ident("nothing")) }

\* The expressions of a slot: 2, -1, N, N + 1, F and 1 + nothing.
SlotExprs ==
    { Literal("abstract-int", 2), Literal("i32", 0 - 1), Ident("N"),
      Binary("+", Ident("N"), I32One), Ident("F"), Binary("+", I32One, Ident("nothing")) }

\* What the parser gives for the attribute: x is there, and z only after y.
WorkgroupSizes ==
    {ws \in [1..3 -> SlotExprs \cup {NoAst}] :
        /\ ws[1] # NoAst
        /\ ws[3] # NoAst => ws[2] # NoAst}

\* What a declaration leaves in the state.
Declared(g, decl) ==
    /\ module' = g.module
    /\ globals' = g.globals
    /\ global_expression_kind_tracker' = g.kinds
    /\ error' = g.err
    /\ st' = Append(st, decl)
    /\ UNCHANGED <<pc, arguments, result, expressions, local_variables,
                   named_expressions, local_table, local_expression_kind_tracker, frames,
                   ast_locals, visible, nstmts, lookups, lw, limit>>

\* ast::GlobalDeclKind::Fn of an entry point with an empty body.
EntryPointDecl(workgroup_size) ==
    /\ error = "none"
    /\ Len(st) < limit
    /\ \E g \in {function([kind |-> "Fn", name |-> EntryNames[Len(st) + 1],
                           arguments |-> << >>, result |-> NoAstType, must_use |-> FALSE,
                           entry_point |-> [stage |-> IF workgroup_size = NoWorkgroupSize
                                                      THEN "Fragment" ELSE "Compute",
                                            workgroup_size |-> workgroup_size],
                           body |-> << >>], 1)} :
          Declared(g, [k |-> "EntryPoint", workgroup_size |-> workgroup_size])

\* ast::GlobalDeclKind::Var of an array of i32.
ArrayDecl(size) ==
    /\ error = "none"
    /\ Len(st) < limit
    /\ \E g \in {global_var([kind |-> "Var", name |-> EntryNames[Len(st) + 1],
                             space |-> "Private", ty |-> AstArray(AstScalar("i32"), size),
                             init |-> NoAst])} :
          Declared(g, [k |-> "Array", size |-> size])

NextEntry ==
    \/ \E workgroup_size \in WorkgroupSizes \cup {NoWorkgroupSize} :
          EntryPointDecl(workgroup_size)
    \/ \E size \in SizeExprs : ArrayDecl(size)

InitEntry ==
    /\ FreshFunction
    /\ globals = EntryGlobals
    /\ module = EntryModule
    /\ global_expression_kind_tracker = << >>
    /\ limit = MaxEntries
    /\ st = << >>
    /\ lw = << >>

SpecEntry == InitEntry /\ [][NextEntry]_vars

\* A slot as the source writes it: a constant, or an expression over the
\* override N.
IsConstantSlot(e) == e = Literal("abstract-int", 2)

IsOverrideSlot(e) == e \in {Ident("N"), Binary("+", Ident("N"), I32One)}

\* The expression h of the arena is the override-expression e.
IsOverrideExpression(e, arena, h) ==
    /\ h \in DOMAIN arena
    /\ IF e.k = "Ident"
       THEN arena[h] = [k |-> "Override", h |-> 1]
       ELSE /\ arena[h].k = "Binary"
            /\ arena[arena[h].left] = [k |-> "Override", h |-> 1]
            /\ arena[arena[h].right] = [k |-> "Literal", ty |-> "i32", v |-> 1]

\* Slot i of the entry point has no override-expression.
Unbacked(ep, i) ==
    ep.workgroup_size_overrides # << >> => ep.workgroup_size_overrides[i] = 0

\* C19: an entry point that is lowered has, without @workgroup_size, the
\* workgroup size [0, 0, 0] and no workgroup_size_overrides; with it, a slot
\* that is not written is 1, a constant slot is its u32 value, a slot over an
\* override is 1 and has its override-expression, in the module's arena, in
\* workgroup_size_overrides; and workgroup_size_overrides is None exactly
\* when no slot is over an override.
C19_WorkgroupSize ==
    [][\A ws \in WorkgroupSizes \cup {NoWorkgroupSize} :
          EntryPointDecl(ws) /\ error' = "none" =>
             /\ Len(module'.entry_points) = Len(module.entry_points) + 1
             /\ LET ep == module'.entry_points[Len(module'.entry_points)] IN
                IF ws = NoWorkgroupSize
                THEN /\ ep.workgroup_size = << 0, 0, 0 >>
                     /\ ep.workgroup_size_overrides = << >>
                ELSE /\ \A i \in 1..3 :
                          /\ ws[i] = NoAst => ep.workgroup_size[i] = 1 /\ Unbacked(ep, i)
                          /\ IsConstantSlot(ws[i]) =>
                                ep.workgroup_size[i] = ws[i].v /\ Unbacked(ep, i)
                          /\ IsOverrideSlot(ws[i]) =>
                                /\ ep.workgroup_size[i] = 1
                                /\ ep.workgroup_size_overrides # << >>
                                /\ IsOverrideExpression(ws[i], module'.global_expressions,
                                                        ep.workgroup_size_overrides[i])
                                /\ global_expression_kind_tracker'[
                                       ep.workgroup_size_overrides[i]] = "Override"
                          /\ ws[i] = NoAst \/ IsConstantSlot(ws[i]) \/ IsOverrideSlot(ws[i])
                     /\ ep.workgroup_size_overrides = << >>
                           <=> \A i \in 1..3 : ~IsOverrideSlot(ws[i])
    ]_vars

\* @workgroup_size(2, N + 1) lowered: the size is [2, 1, 1] and the second
\* slot has the Binary expression over N.
C19_Witness ==
    /\ error = "none"
    /\ Len(module.entry_points) = 1
    /\ module.entry_points[1].workgroup_size = << 2, 1, 1 >>
    /\ module.entry_points[1].workgroup_size_overrides = << 0, 5, 0 >>
    /\ module.global_expressions[5].k = "Binary"
    /\ st[1].workgroup_size[3] = NoAst

\* What lowering an expression as a constant gives, read off the source
\* text: the evaluator's OverrideExpr at an override, UnknownIdent at a name
\* that is not declared, the error `negative` of the site for -1, and
\* ExpectedConstExprConcreteIntegerScalar for a float.
ConstantError(e, negative) ==
    CASE e \in {Ident("N"), Ident("F"), Binary("+", Ident("N"), I32One)} ->
            "ConstantEvaluatorError(OverrideExpr)"
      [] e = Binary("+", I32One, Ident("nothing")) -> "UnknownIdent"
      [] e = Literal("i32", 0 - 1) -> negative
      [] e = Literal("f32", 1) -> "ExpectedConstExprConcreteIntegerScalar"
      [] OTHER -> "none"

\* What lowering it once more as an override-expression gives: F is no
\* integer.
OverrideError(e) ==
    IF e = Ident("F") THEN "ExpectedConstExprConcreteIntegerScalar" ELSE "none"

\* The error of a length or of a slot.
SizeError(e, negative) ==
    IF ConstantError(e, negative) = "ConstantEvaluatorError(OverrideExpr)"
    THEN OverrideError(e) ELSE ConstantError(e, negative)

\* The expressions one site leaves in the module's arena: after
\* OverrideExpr, which comes before anything is appended, those of the
\* second lowering; else those of the only lowering, up to its error (the
\* abstract 2 is followed by its concretization).
Growth(e) ==
    CASE e = NoAst -> 0
      [] e = Binary("+", Ident("N"), I32One) -> 3
      [] e = Literal("abstract-int", 2) -> 2
      [] OTHER -> 1

\* The slots that are lowered: those up to the first that fails.
Reached(ws, i) == \A j \in 1..(i - 1) : SizeError(ws[j], "ExpectedNonNegative") = "none"

\* C13: an array length or a workgroup-size slot whose lowering as a constant
\* ends with the evaluator's OverrideExpr is lowered again as an
\* override-expression: the length becomes ArraySize::Pending of the override
\* itself when the expression is that override and of a new unnamed override
\* otherwise, the slot gets the override-expression.  Any other error of the
\* first lowering is the error of the declaration, and the expression is not
\* lowered a second time.
C13_OverrideExprIsRetried ==
    [][/\ \A size \in SizeExprs :
             ArrayDecl(size) =>
                LET first == ConstantError(size, "ExpectedPositiveArrayLength")
                    grown == Len(module'.global_expressions) - Len(module.global_expressions)
                    variable == module'.global_variables[Len(module'.global_variables)]
                IN  /\ grown = Growth(size)
                    /\ IF first = "ConstantEvaluatorError(OverrideExpr)"
                       THEN /\ error' = OverrideError(size)
                            /\ global_expression_kind_tracker'[
                                   Len(module'.global_expressions)] = "Override"
                            /\ error' = "none" /\ size = Ident("N") =>
                                  /\ module'.overrides = module.overrides
                                  /\ variable.ty =
                                        Array(Scalar("i32"), ArraySize_Pending(globals.N.h))
                            /\ error' = "none" /\ size # Ident("N") =>
                                  /\ module'.overrides =
                                        Append(module.overrides,
                                               [name |-> "", ty |-> Scalar("i32"),
                                                init |-> Len(module'.global_expressions)])
                                  /\ variable.ty =
                                        Array(Scalar("i32"),
                                              ArraySize_Pending(Len(module'.overrides)))
                       ELSE /\ error' = first
                            /\ module'.overrides = module.overrides
                            /\ error' = "none" =>
                                  variable.ty =
                                     Array(Scalar("i32"), ArraySize_Constant(size.v))
       /\ \A ws \in WorkgroupSizes :
             EntryPointDecl(ws) =>
                LET grown == Len(module'.global_expressions) - Len(module.global_expressions)
                    counted(i) == IF Reached(ws, i) THEN Growth(ws[i]) ELSE 0
                IN  /\ grown = counted(1) + counted(2) + counted(3)
                    /\ module'.overrides = module.overrides
                    /\ \A i \in 1..3 :
                          Reached(ws, i) /\ ws[i] # NoAst =>
                             LET err == SizeError(ws[i], "ExpectedNonNegative") IN
                             /\ err # "none" => error' = err
                             /\ err = "none" /\ error' = "none" =>
                                   LET ep == module'.entry_points[Len(module'.entry_points)]
                                   IN  ConstantError(ws[i], "ExpectedNonNegative") = "none"
                                          <=> Unbacked(ep, i)
    ]_vars

\* `var<private> a: array<i32, N + 1>;` lowered: the module has a third,
\* unnamed override whose initializer is N + 1, and the length of the array is
\* Pending on it.
C13_Witness ==
    /\ error = "none"
    /\ st = << [k |-> "Array", size |-> Binary("+", Ident("N"), I32One)] >>
    /\ Len(module.overrides) = 3
    /\ module.overrides[3] = [name |-> "", ty |-> Scalar("i32"), init |-> 3]
    /\ module.global_expressions[3].k = "Binary"
    /\ module.global_variables[1].ty = Array(Scalar("i32"), ArraySize_Pending(3))

(***************************************************************************)
(* Local constants and the expression-kind tracker.                        *)
(***************************************************************************)
\* The locals the local table records as Declared::Const.
DeclaredConst == {id \in DOMAIN local_table : local_table[id].decl = "Const"}

\* C27: within a function, every handle the local table records as
\* Declared::Const is Const for the local expression-kind tracker at every
\* later point of the lowering, whatever `const`, `let` and `var`
\* declarations follow, and the assertion is_const(handle) of
\* const_eval_expr_to_u32 never fails.
C27_DeclaredConstStaysConst ==
    /\ \A id \in DeclaredConst :
          is_const(local_expression_kind_tracker, local_table[id].h)
    /\ error # "panic: assertion failed: is_const(handle)"

(***************************************************************************)
(* SpecAccess: the body of                                                 *)
(*     fn f(a: i32, p: ptr<function, vec3<f32>>, v: vec3<f32>)             *)
(* over the prelude and the private array arr: array<i32, 2>: phony        *)
(* assignments of address-of, dereference, index and member expressions,   *)
(* assignments, increments and decrements.                                 *)
(***************************************************************************)
MaxAccesses == 2

AccessModule ==
    [PreludeModule EXCEPT
        !.types = @ \o << Array(Scalar("i32"), ArraySize_Constant(2)), Scalar("u32") >>,
        !.global_variables =
            @ \o << [name |-> "arr", space |-> "Private",
                     ty |-> Array(Scalar("i32"), ArraySize_Constant(2)), init |-> 0],
                    [name |-> "u", space |-> "Private", ty |-> Scalar("u32"),
                     init |-> 0] >>]

AccessGlobals ==
    PreludeGlobals @@ [name \in {"arr", "u"} |-> [k |-> "Var", h |-> IF name = "arr" THEN 4 ELSE 5]]

\* The operands of `&` and of `.`: references, values, a pointer, and
\* components of vectors and elements of the array.
AccessOperands ==
    { Ident("g"), Ident("n"), Ident("arr"), Local(1), Local(2), Local(3), Deref(Local(2)),
      Member(Ident("g"), X), Index(Ident("g"), I32One), Index(Ident("arr"), I32One),
      Index(Ident("arr"), Local(1)), Index(Local(2), I32One), Index(Local(3), Local(1)) }

AccessExprs ==
    AccessOperands \cup {AddrOf(e) : e \in AccessOperands}
        \cup {Deref(e) : e \in AccessOperands}
        \cup {Deref(AddrOf(e)) : e \in AccessOperands}

\* The bases of a member access: vectors by reference, by value and by
\* pointer, and scalars by value and by reference.
MemberBases == { Ident("g"), Local(3), Local(2), Deref(Local(2)), Local(1), Ident("n") }

\* The names after the `.`: of one to five letters, of the xyzw and rgba
\* families, of both, and with a letter of neither.
MemberNames ==
    { << "x" >>, << "g" >>, << "w" >>, << "q" >>, << "x", "y" >>, << "b", "g", "r" >>,
      << "w", "z", "y", "x" >>, << "x", "g" >>, << "x", "q" >>,
      << "x", "x", "x", "x", "x" >> }

\* The operators of a binary expression: the four that lift a scalar, and
\* multiplication.
BinaryOperators == { "+", "-", "/", "%", "*" }

\* The operands: a vector of f32, and scalars of i32, of f32 and of
\* abstract-int.
BinaryOperands == { Ident("g"), Local(1), Literal("f32", 1), AbstractOne }

\* The targets of `++` and `--`: references to an i32, to a u32, to an
\* element of an array of i32, to an f32 component, to a vector and to an
\* array, and values.
IncrementTargets ==
    { Ident("n"), Ident("u"), Index(Ident("arr"), I32One), Index(Ident("arr"), Local(1)),
      Member(Ident("g"), X), Ident("g"), Ident("arr"), Deref(Local(2)), Local(1), Local(2),
      I32One }

\* The targets of an assignment: arguments, which are named; components
\* and elements of a vector argument; swizzles of a variable and of an
\* argument, and an element of a swizzle; a literal, a pointer and a sum,
\* which are none of these; and references.
AssignTargets ==
    { Local(1), Local(2), Local(3), Member(Local(3), X), Index(Local(3), I32One),
      Index(Local(3), Local(1)), Member(Ident("g"), << "x", "y" >>),
      Member(Local(3), << "x", "y" >>), Index(Member(Ident("g"), << "x", "y" >>), I32One),
      I32One, AddrOf(Ident("n")), Binary("+", Local(1), Local(1)),
      Ident("n"), Member(Ident("g"), X), Deref(Local(2)) }

\* ast::StatementKind::Assign, st keeping the InvalidAssignmentType of the
\* error the statement returned.
AccessAssign(target, value) ==
    /\ CanLower
    /\ \E c \in {Assign(target, "", value, NewContext("Runtime"))} :
          Commit(c, << >>) /\ st' = c.cause
    /\ UNCHANGED <<globals, arguments, result, named_expressions, local_table, ast_locals,
                   visible, lw, limit>>

NextAccess ==
    \/ FunctionArguments(WriterArguments, NoType)
    \/ \E expr \in AccessExprs : StatementPhony(expr)
    \/ \E base \in MemberBases, name \in MemberNames : StatementPhony(Member(base, name))
    \/ \E op \in BinaryOperators, left \in BinaryOperands, right \in BinaryOperands :
          StatementPhony(Binary(op, left, right))
    \/ \E target \in IncrementTargets, op \in {"+", "-"} : StatementIncrement(target, op)
    \/ \E target \in AssignTargets : AccessAssign(target, AbstractOne)
    \/ FunctionEnd

InitAccess ==
    /\ FreshFunction
    /\ globals = AccessGlobals
    /\ module = AccessModule
    /\ global_expression_kind_tracker = << >>
    /\ limit = MaxAccesses
    /\ st = NoCause
    /\ lw = << >>

SpecAccess == InitAccess /\ [][NextAccess]_vars

\* Whether the reference r.h is a component of a vector: an Access or an
\* AccessIndex whose base is a pointer to a vector.
IsVectorComponent(r) ==
    /\ r.expressions[r.h].k \in {"Access", "AccessIndex"}
    /\ resolve_inner(r, r.expressions[r.h].base) = Pointer(Vector("f32"))

\* The phony assignment of a Plain handle h that needs no conversion: h is
\* named, and nothing is appended to the arena r.
NamesPlain(r) ==
    /\ error' = "none"
    /\ expressions' = r.expressions
    /\ named_expressions' = IndexMap_insert(named_expressions, r.h, 0)

\* C21: `&e` appends no expression: when e lowers to Reference(h) it is
\* Plain(h); when e lowers to a Plain value it fails with NotReference; when
\* h is an Access or AccessIndex whose base points to a vector it fails with
\* InvalidAddrOfOperand.  `*p` of a plain pointer h is Reference(h), so that
\* `*(&e)` is lowered exactly as e is.
C21_AddrOfAndDeref ==
    [][\A e \in AccessOperands :
          /\ StatementPhony(AddrOf(e)) =>
                LET r == expression_for_reference(e, Emitter_start(NewContext("Runtime")))
                IN  CASE ~Ok(r) -> error' = r.err
                      [] ~r.ref -> error' = "NotReference"
                      [] IsVectorComponent(r) -> error' = "InvalidAddrOfOperand"
                      [] OTHER -> NamesPlain(r)
          /\ StatementPhony(Deref(e)) =>
                LET p == expression(e, Emitter_start(NewContext("Runtime")))
                IN  CASE ~Ok(p) -> error' = p.err
                      [] ~pointer_space_is_some(resolve_inner(p, p.h)) ->
                            error' = "NotPointer"
                      [] OTHER ->
                            /\ error' = "none"
                            /\ expressions' = Append(p.expressions,
                                                     [k |-> "Load", pointer |-> p.h])
          /\ StatementPhony(Deref(AddrOf(e))) =>
                LET r == expression_for_reference(e, Emitter_start(NewContext("Runtime")))
                IN  Ok(r) /\ r.ref /\ ~IsVectorComponent(r) => StatementPhony(e)
    ]_vars

\* `_ = &g;` lowered: the phony names the GlobalVariable itself, a pointer.
C21_Witness ==
    /\ pc = "lowering"
    /\ error = "none"
    /\ \E i \in DOMAIN named_expressions :
          /\ named_expressions[i].name = 0
          /\ expressions[named_expressions[i].key].k = "GlobalVariable"

\* The component a letter names.
Position(letter) ==
    CASE letter \in {"x", "r"} -> 0
      [] letter \in {"y", "g"} -> 1
      [] letter \in {"z", "b"} -> 2
      [] letter \in {"w", "a"} -> 3

\* Whether the letters of a name are all of xyzw or all of rgba.
OneFamily(name) ==
    \/ \A i \in DOMAIN name : name[i] \in {"x", "y", "z", "w"}
    \/ \A i \in DOMAIN name : name[i] \in {"r", "g", "b", "a"}

\* The arena after `_ = base.name;` for a vector base lowered as r and
\* tagged Reference or Plain: one letter appends the AccessIndex, followed by
\* its Load when it is a reference; several letters append the Load of a
\* reference and then the Swizzle of the loaded value.
MemberArena(r, name, reference) ==
    LET next == Len(r.expressions) + 1
        pattern == [i \in 1..4 |-> IF i <= Len(name) THEN Position(name[i]) ELSE 0]
    IN  IF Len(name) = 1
        THEN r.expressions
                \o << [k |-> "AccessIndex", base |-> r.h, index |-> Position(name[1])] >>
                \o (IF reference THEN << [k |-> "Load", pointer |-> next] >> ELSE << >>)
        ELSE IF reference
        THEN r.expressions
                \o << [k |-> "Load", pointer |-> r.h],
                      [k |-> "Swizzle", size |-> Len(name), vector |-> next,
                       pattern |-> pattern] >>
        ELSE Append(r.expressions, [k |-> "Swizzle", size |-> Len(name), vector |-> r.h,
                                    pattern |-> pattern])

\* `_ = base.name;` with the base lowered as r and taken as a reference or
\* as a value.
MemberLowered(r, name, reference) ==
    CASE ~Ok(r) -> error' = r.err
      [] resolve_inner(r, r.h).k # "Vector" -> error' = "BadAccessor"
      [] \/ Len(name) \notin 1..4
         \/ \E i \in DOMAIN name : name[i] \notin {"x", "y", "z", "w", "r", "g", "b", "a"}
         \/ ~OneFamily(name) -> error' = "BadAccessor"
      [] OTHER -> error' = "none" /\ expressions' = MemberArena(r, name, reference)

\* C23 as stated: the access of one letter keeps the tag of the base as it
\* was lowered, and the Swizzle takes the base load-ruled under that tag.
C23_MemberKeepsTheTagOfTheBase ==
    [][\A base \in MemberBases, name \in MemberNames :
          StatementPhony(Member(base, name)) =>
             LET r == expression_for_reference(base, Emitter_start(NewContext("Runtime")))
             IN  MemberLowered(r, name, r.ref)
    ]_vars

\* C23: member access on a vector, where a base that is a Plain pointer to
\* the vector counts as a reference to it: a name of one letter is the
\* AccessIndex 0..3 (x/r, y/g, z/b, w/a) with the tag of the base; a name of
\* two to four letters is a Plain Swizzle of that size, its pattern the
\* letters in order and X after them, over the base load-ruled; any other
\* length, a letter outside xyzw and rgba, or letters of both families give
\* BadAccessor, and so does a base that is neither a vector nor a reference
\* or pointer to one.
C23_MemberOfAVector ==
    [][\A base \in MemberBases, name \in MemberNames :
          StatementPhony(Member(base, name)) =>
             LET r == expression_for_reference(base, Emitter_start(NewContext("Runtime")))
             IN  MemberLowered(r, name,
                               r.ref \/ (Ok(r) /\ pointer_space_is_some(resolve_inner(r, r.h))))
    ]_vars

\* `_ = g.bgr;` lowered: the Load of g and the Swizzle of the three
\* components of the loaded vector.
C23_Witness ==
    /\ pc = "lowering"
    /\ error = "none"
    /\ \E h \in DOMAIN expressions :
          /\ expressions[h].k = "Swizzle"
          /\ expressions[h].size = 3
          /\ expressions[h].pattern = << 2, 1, 0, 0 >>
          /\ expressions[expressions[h].vector].k = "Load"

(***************************************************************************)
(* SpecConst: the body of                                                  *)
(*     fn f(a: i32, p: ptr<function, vec3<f32>>, v: vec3<f32>)             *)
(* over the prelude and `const K = vec3<i32>();`: local constants, `let`   *)
(* declarations naming a local, arrays whose length names a local, and     *)
(* index expressions over them in Runtime and in Constant contexts.        *)
(***************************************************************************)
MaxConsts == 3

ConstModule ==
    [PreludeModule EXCEPT
        !.types = Append(@, Vector("i32")),
        !.global_expressions = << [k |-> "ZeroValue", ty |-> Vector("i32")] >>,
        !.constants = << [name |-> "K", ty |-> Vector("i32"), init |-> 1] >>]

ConstGlobals == PreludeGlobals @@ [name \in {"K"} |-> [k |-> "Const", h |-> 1]]

\* The bases of an index expression: a vector by reference, by pointer and
\* by value.
IndexBases == { Ident("g"), Local(2), Local(3) }

\* The indices: literals, one of them negative, and the locals in scope.
IndexValues == { I32One, AbstractOne, Literal("i32", 0 - 1) } \cup Locals

NextConst ==
    \/ FunctionArguments(WriterArguments, NoType)
    \/ \E init \in {I32One, AbstractOne} : StatementConst(init, NoAstType)
    \/ \E init \in Locals : StatementLet(init, NoAstType)
    \/ \E size \in Locals : StatementVar(NoAst, AstArray(AstScalar("i32"), size))
    \/ \E index \in Locals : StatementConst(Index(Ident("K"), index), NoAstType)
    \/ \E base \in IndexBases, index \in IndexValues : StatementPhony(Index(base, index))
    \/ FunctionEnd

InitConst ==
    /\ FreshFunction
    /\ globals = ConstGlobals
    /\ module = ConstModule
    /\ global_expression_kind_tracker = << "Const" >>
    /\ limit = MaxConsts
    /\ st = NoCause
    /\ lw = << >>

SpecConst == InitConst /\ [][NextConst]_vars

\* Whether the index lowered as r.h evaluates to a u32 constant.
IsU32Constant(r) ==
    /\ is_const(r.kinds, r.h)
    /\ r.expressions[r.h].k = "Literal"
    /\ r.expressions[r.h].ty \in {"i32", "u32"}
    /\ r.expressions[r.h].v >= 0

\* The arena after `_ = base[index];` with the base lowered as b, the index
\* as r, and the access a reference or a value.
IndexArena(b, r, reference) ==
    r.expressions
        \o << IF IsU32Constant(r)
              THEN [k |-> "AccessIndex", base |-> b.h, index |-> r.expressions[r.h].v]
              ELSE [k |-> "Access", base |-> b.h, index |-> r.h] >>
        \o (IF reference THEN << [k |-> "Load", pointer |-> Len(r.expressions) + 1] >>
            ELSE << >>)

IndexLowered(b, r) ==
    CASE ~Ok(b) -> error' = b.err
      [] ~Ok(r) -> error' = r.err
      [] OTHER ->
            /\ error' = "none"
            /\ expressions' =
                  IndexArena(b, r, b.ref \/ pointer_space_is_some(resolve_inner(b, b.h)))

\* C22: `base[index]` is AccessIndex{base, n} when the lowered index
\* evaluates to a u32 constant n, and Access{base, index} otherwise; it has
\* the tag of the base, a Plain base of pointer type counting as a
\* reference.  An index the tracker does not classify as const (a `let`, or
\* what a `let` names) gives an Access; in a Constant context the access is
\* appended or refused by the constant evaluator, and the lowering never
\* panics on it.
C22_IndexIsAccessIndexOrAccess ==
    [][/\ \A base \in IndexBases, index \in IndexValues :
             StatementPhony(Index(base, index)) =>
                LET b == expression_for_reference(base, Emitter_start(NewContext("Runtime")))
                IN  IndexLowered(b, expression(index, b))
       /\ \A index \in Locals :
             StatementConst(Index(Ident("K"), index), NoAstType) => error' \notin Panics
    ]_vars

\* Whether the types are those of a vector value and of a scalar value.
VectorAndScalar(vt, st0) ==
    vt.k = "Vector" /\ vt.p = "val" /\ st0.k = "Scalar" /\ st0.p = "val"

\* The Binary expression `_ = left op right;` ends with.
LastBinary == expressions'[Len(expressions')]

\* What binary_op_splat did to the operands lowered as l.h and r.h, r being
\* the context after both, where `lifts` tells whether a scalar is lifted:
\* then the Splat of the scalar operand is the next expression of the arena
\* and takes its place in the Binary; if not, the arena gets no Splat and
\* the Binary (which is kept unless both operands are constants and it is
\* evaluated) none for an operand.
SplatLowered(l, r, lifts) ==
    LET lt == resolve_inner(r, l.h)
        rt == resolve_inner(r, r.h)
        next == Len(r.expressions) + 1
    IN  /\ error' = "none"
        /\ IF lifts /\ VectorAndScalar(lt, rt)
           THEN /\ expressions'[next] = [k |-> "Splat", value |-> r.h]
                /\ LastBinary.k = "Binary"
                /\ LastBinary.left = l.h
                /\ expressions'[LastBinary.right].k = "Splat"
           ELSE IF lifts /\ VectorAndScalar(rt, lt)
           THEN /\ expressions'[next] = [k |-> "Splat", value |-> l.h]
                /\ LastBinary.k = "Binary"
                /\ expressions'[LastBinary.left].k = "Splat"
                /\ LastBinary.right = r.h
           ELSE /\ \A h \in next..Len(expressions') : expressions'[h].k # "Splat"
                /\ LastBinary.k = "Binary" =>
                      /\ expressions'[LastBinary.left].k # "Splat"
                      /\ expressions'[LastBinary.right].k # "Splat"

\* C24 as stated: a scalar is lifted only to a vector of its own leaf scalar.
C24_SplatOfTheSameLeafScalar ==
    [][\A op \in BinaryOperators, left \in BinaryOperands, right \in BinaryOperands :
          StatementPhony(Binary(op, left, right)) =>
             LET l == expression_for_abstract(left, Emitter_start(NewContext("Runtime")))
                 r == expression_for_abstract(right, l)
             IN  SplatLowered(l, r, /\ op \in {"+", "-", "/", "%"}
                                    /\ resolve_inner(r, l.h).s = resolve_inner(r, r.h).s)
    ]_vars

\* C24: binary_op_splat: for add, subtract, divide and modulo, when one
\* operand is a vector and the other a scalar, whatever their leaf scalars,
\* the scalar operand is replaced by a new Splat of it, appended before the
\* operands are converted; for multiply, and for operands that are not one
\* vector and one scalar, neither operand is changed and nothing is appended.
C24_SplatOfTheScalarOperand ==
    [][\A op \in BinaryOperators, left \in BinaryOperands, right \in BinaryOperands :
          StatementPhony(Binary(op, left, right)) =>
             LET l == expression_for_abstract(left, Emitter_start(NewContext("Runtime")))
                 r == expression_for_abstract(right, l)
             IN  SplatLowered(l, r, op \in {"+", "-", "/", "%"})
    ]_vars

\* `_ = g + 1;` lowered: the Splat of the abstract 1 is appended, then cast
\* to f32 with its value, and the sum takes the Splat of the f32 literal.
C24_Witness ==
    /\ pc = "lowering"
    /\ error = "none"
    /\ \E h \in DOMAIN expressions :
          /\ expressions[h].k = "Binary"
          /\ expressions[h].op = "+"
          /\ expressions[expressions[h].left].k = "Load"
          /\ expressions[expressions[h].right].k = "Splat"
          /\ expressions[expressions[expressions[h].right].value]
                = [k |-> "Literal", ty |-> "f32", v |-> 1]
          /\ \E s \in DOMAIN expressions :
                /\ expressions[s].k = "Splat"
                /\ expressions[expressions[s].value]
                      = [k |-> "Literal", ty |-> "abstract-int", v |-> 1]

\* The Store statements of a block.
StoresOf(b) == {i \in DOMAIN b : b[i].k = "Store"}

\* Whether the reference of type ty points to a scalar of kind sint or uint.
PointsToInteger(ty) ==
    ty.k = "Scalar" /\ ty.p \in {"ptr", "vptr"} /\ ty.s \in {"i32", "u32"}

\* What `target++` or `target--` did, t being the context after the target
\* was lowered to the reference t.h: the literal one, the Load and the Binary
\* are the next three expressions, and the block ends with the Emit of the
\* Load and the Binary and with the one Store the statement pushed.
IncrementLowered(t, op) ==
    LET one == Len(t.expressions) + 1
        b == CurrentBlock'
    IN  /\ error' = "none"
        /\ expressions' = t.expressions \o
               << [k |-> "Literal", ty |-> resolve_inner(t, t.h).s, v |-> 1],
                  [k |-> "Load", pointer |-> t.h],
                  [k |-> "Binary", op |-> op, left |-> one + 1, right |-> one] >>
        /\ Len(b) >= 2
        /\ b[Len(b)] = [k |-> "Store", pointer |-> t.h, value |-> one + 2]
        /\ b[Len(b) - 1].k = "Emit"
        /\ {one + 1, one + 2} \subseteq b[Len(b) - 1].first..b[Len(b) - 1].last
        /\ one \notin EmittedIn(b, Len(b))
        /\ Cardinality(StoresOf(b)) = Cardinality(StoresOf(CurrentBlock)) + 1

\* C25: an increment or a decrement whose target lowers to a reference to a
\* scalar of kind sint or uint pushes exactly one Store to the target of the
\* Binary (add or subtract) of the Load of the target and the literal one of
\* the target's scalar, the literal outside every Emit range, the Load and
\* the Binary inside the Emit that precedes the Store; with any other target
\* that lowers, the statement fails with BadIncrDecrReferenceType and pushes
\* no Store.
C25_IncrementStoresTheSum ==
    [][\A target \in IncrementTargets, op \in {"+", "-"} :
          StatementIncrement(target, op) =>
             LET t == expression_for_reference(target, Emitter_start(NewContext("Runtime")))
             IN  IF ~Ok(t) THEN error' = t.err /\ StoresOf(CurrentBlock') = StoresOf(CurrentBlock)
                 ELSE IF t.ref /\ PointsToInteger(resolve_inner(t, t.h))
                 THEN IncrementLowered(t, op)
                 ELSE /\ error' = "BadIncrDecrReferenceType"
                      /\ StoresOf(CurrentBlock') = StoresOf(CurrentBlock)
    ]_vars

\* A decrement of a u32 variable and an increment of an element of an array
\* of i32 were lowered.
C25_Witness ==
    /\ pc = "lowering"
    /\ error = "none"
    /\ \E i, j \in StoresOf(CurrentBlock) :
          /\ expressions[CurrentBlock[i].value].k = "Binary"
          /\ expressions[CurrentBlock[i].value].op = "-"
          /\ expressions[expressions[CurrentBlock[i].value].right]
                = [k |-> "Literal", ty |-> "u32", v |-> 1]
          /\ expressions[CurrentBlock[j].value].k = "Binary"
          /\ expressions[CurrentBlock[j].value].op = "+"
          /\ expressions[CurrentBlock[j].pointer].k \in {"Access", "AccessIndex"}

\* The handles from h along the bases of Access and AccessIndex expressions.
RECURSIVE BaseChain(_, _)
BaseChain(arena, h) ==
    IF arena[h].k \in {"Access", "AccessIndex"}
    THEN << h >> \o BaseChain(arena, arena[h].base)
    ELSE << h >>

\* Whether a handle is a key of named_expressions.
IsNamed(h) == \E i \in 1..Len(named_expressions) : named_expressions[i].key = h

\* The name of the first named handle of a chain.
FirstNamed(chain) ==
    LET first == CHOOSE i \in 1..Len(chain) :
                     IsNamed(chain[i]) /\ \A j \in 1..(i - 1) : ~IsNamed(chain[j])
    IN  (CHOOSE e \in {named_expressions[i] : i \in 1..Len(named_expressions)} :
             e.key = chain[first]).name

\* The cause the claim gives for a target that is the Plain handle h.
CauseOf(arena, h) ==
    LET chain == BaseChain(arena, h)
    IN  IF \E i \in 1..Len(chain) : IsNamed(chain[i])
        THEN [k |-> "ImmutableBinding", name |-> FirstNamed(chain)]
        ELSE IF arena[chain[Len(chain)]].k = "Swizzle"
        THEN [k |-> "Swizzle", name |-> 0]
        ELSE [k |-> "Other", name |-> 0]

\* C26: an assignment whose target lowers to no reference fails with
\* InvalidAssignment and pushes no Store; the cause is ImmutableBinding, with
\* the binding's name, when the target handle or a base reached from it along
\* Access/AccessIndex bases is a key of named_expressions, Swizzle when that
\* walk ends at a Swizzle without meeting a named handle, and Other
\* otherwise.  A target that lowers to a reference does not fail so.
C26_InvalidAssignmentCause ==
    [][\A target \in AssignTargets :
          AccessAssign(target, AbstractOne) =>
             LET t == expression_for_reference(target, Emitter_start(NewContext("Runtime")))
             IN  /\ (Ok(t) /\ ~t.ref) =>
                       /\ error' = "InvalidAssignment"
                       /\ StoresOf(CurrentBlock') = StoresOf(CurrentBlock)
                       /\ st' = CauseOf(t.expressions, t.h)
                 /\ (Ok(t) /\ t.ref) => error' # "InvalidAssignment" /\ st' = NoCause
    ]_vars

\* An assignment to a component of a vector argument failed: the cause is
\* the binding of the argument, reached through the base of the AccessIndex.
C26_Witness ==
    /\ error = "InvalidAssignment"
    /\ st = [k |-> "ImmutableBinding", name |-> 3]
    /\ expressions[Len(expressions)].k = "AccessIndex"
    /\ expressions[Len(expressions)].base = 3

(***************************************************************************)
(* SpecDispatch: the calls Lowerer::call turns into a statement of the     *)
(* current block: a user function, atomicAdd, atomicStore and the ray      *)
(* query functions, as a statement, as the value of a phony assignment     *)
(* and as the initializer of a const declaration.                          *)
(***************************************************************************)
MaxDispatches == 2

DispatchModule ==
    [CallModule(FALSE) EXCEPT
        !.types = Append(@, RayQuery),
        !.global_variables =
            Append(@, [name |-> "rq", space |-> "Private", ty |-> RayQuery, init |-> 0])]

DispatchGlobals == CallGlobals(FALSE) @@ [name \in {"rq"} |-> [k |-> "Var", h |-> 4]]

DispatchNames == {"callee", "atomicAdd", "atomicStore"} \cup RayQueryFunctions

\* The first argument: a pointer to the ray query, to the atomic, and a
\* variable, whose Load needs an Emit.
DispatchPointers == { AddrOf(Ident("rq")), AddrOf(Ident("a32")), Ident("n") }

\* The arguments after it: an argument of the function, which needs no
\* Emit, and a sum with the Load of a variable, which needs one.
DispatchValues == { Local(1), Binary("+", Local(1), Ident("n")) }

DispatchArgLists ==
    {<< >>} \cup {<< p >> : p \in DispatchPointers}
        \cup {<< p, v >> : p \in DispatchPointers, v \in DispatchValues}
        \cup {<< p, v, w >> : p \in DispatchPointers, v \in DispatchValues,
                              w \in DispatchValues}

NextDispatch ==
    \/ FunctionArguments(CallerArguments, NoType)
    \/ \E fname \in DispatchNames, args \in DispatchArgLists : CallStatement(fname, args)
    \/ \E fname \in DispatchNames, args \in DispatchArgLists : CallPhony(fname, args)
    \/ \E fname \in DispatchNames, args \in DispatchArgLists : CallConst(fname, args)
    \/ FunctionEnd

InitDispatch ==
    /\ FreshFunction
    /\ globals = DispatchGlobals
    /\ module = DispatchModule
    /\ global_expression_kind_tracker = << "Const" >>
    /\ limit = MaxDispatches
    /\ st = << >>
    /\ lw = << >>

SpecDispatch == InitDispatch /\ [][NextDispatch]_vars

\* The expressions a RayQueryFunction takes.
RayQueryOperands(fun) ==
    CASE fun.k = "Initialize" -> {fun.acceleration_structure, fun.descriptor}
      [] fun.k = "GenerateIntersection" -> {fun.hit_t}
      [] OTHER -> {}

\* The expressions a statement pushed by the call dispatcher takes.
DispatchedOperands(s) ==
    CASE s.k = "Call" -> {s.arguments[j] : j \in DOMAIN s.arguments}
      [] s.k = "Store" -> {s.pointer, s.value}
      [] s.k = "Atomic" -> {s.pointer, s.value}
      [] s.k = "RayQuery" -> {s.query} \cup RayQueryOperands(s.fun)
      [] OTHER -> {}

\* Whether what the i-th statement of the block takes, and whatever that is
\* computed from, is covered by the Emit statements before it when it needs
\* an Emit.
EmittedBefore(b, i) ==
    \A h \in UsedFrom(expressions, DispatchedOperands(b[i])) :
        NeedsEmit(h) => h \in EmittedIn(b, i - 1)

\* C29: after every statement lowered without an error, each Call, Store,
\* Atomic and RayQuery statement of the block stands after the Emit
\* statements that cover the expressions lowered for its arguments.
C29_ArgumentsAreEmittedBeforeTheStatement ==
    (pc = "lowering" /\ error = "none") =>
        \A i \in DOMAIN Top.block : EmittedBefore(Top.block, i)

\* The panics of Emitter::start and Emitter::finish.
EmitterPanics == { "panic: Emitting has already started!", "panic: finish without start" }

\* The context a statement of a site returns: the statement has started its
\* emitter, lowered the call and finished the emitter.
LoweredSite(site, fname, args) ==
    CASE site = "statement" ->
            Emitter_finish(call(fname, args, Emitter_start(NewContext("Runtime")), TRUE))
      [] site = "phony" -> Phony(Call(fname, args), NewContext("Runtime"))
      [] OTHER -> Const(Call(fname, args), NoAstType, NewContext("ConstantLocal"))

\* C28: no statement makes Emitter::start panic for a window that is open,
\* nor Emitter::finish for one that is not: through interrupt_emitter, a call
\* of a user function, an atomic, atomicStore, the ray query functions and
\* a const initializer lowered in a Constant context on the statement's
\* emitter, the calls alternate.  And a statement that is lowered without an
\* error returns with the window closed.
C28_EmitterAlternates ==
    /\ [](error \notin EmitterPanics)
    /\ [][\A site \in {"statement", "phony", "const"}, fname \in DispatchNames,
             args \in DispatchArgLists :
             (nstmts' = nstmts + 1 /\ error' = "none" /\ st' = Site(site, fname, args)) =>
                 LoweredSite(site, fname, args).emitter = NotStarted
       ]_vars

\* `rayQueryInitialize(&rq, x, x + n);` was lowered: the emitter was started,
\* finished before the statement was pushed (the Emit), started again and
\* finished at the end of the statement.
C28_Witness ==
    /\ pc = "lowering"
    /\ error = "none"
    /\ st # << >>
    /\ st.site = "statement"
    /\ st.function = "rayQueryInitialize"
    /\ Len(Top.block) >= 2
    /\ Top.block[Len(Top.block)].k = "RayQuery"
    /\ Top.block[Len(Top.block) - 1].k = "Emit"

(***************************************************************************)
(* SpecGlobals: lower() over translation units whose functions call        *)
(* functions: one declared before, a built-in, and the function itself.    *)
(***************************************************************************)
MaxGlobals == 3

\* fn name(x: i32) -> i32 { return value; }
Fn(name, value) ==
    [kind |-> "Fn", name |-> name, arguments |-> << AstScalar("i32") >>,
     result |-> AstScalar("i32"), must_use |-> FALSE, entry_point |-> NoEntryPoint,
     body |-> << [value |-> value] >>]

\* The declarations the translation units are made of:
\*   const K = 1;
\*   fn id(x: i32) -> i32 { return x; }       fn user(x: i32) -> i32 { return id(x); }
\*   fn rec(x: i32) -> i32 { return rec(x); } fn abs(x: i32) -> i32 { return abs(x); }
\*   fn twice(x: i32) -> i32 { return abs(x); }
\*   fn bad(x: i32) -> i32 { return &x; }
GlobalDecls ==
    { [kind |-> "Const", name |-> "K", ty |-> NoAstType, init |-> AbstractOne],
      Fn("id", Local(1)),
      Fn("user", Call("id", << Local(1) >>)),
      Fn("rec", Call("rec", << Local(1) >>)),
      Fn("abs", Call("abs", << Local(1) >>)),
      Fn("twice", Call("abs", << Local(1) >>)),
      Fn("bad", AddrOf(Local(1))) }

\* The name a function calls, "" when it calls none.
Callee(d) ==
    IF d.kind = "Fn" /\ d.body[1].value.k = "Call" THEN d.body[1].value.function ELSE ""

\* Index::visit_ordered: each declaration is declared once, and one that
\* another declaration of the unit uses comes before it.
VisitOrdered(tu) ==
    /\ \A i, j \in DOMAIN tu : i # j => tu[i].name # tu[j].name
    /\ \A i, j \in DOMAIN tu : (i # j /\ Callee(tu[i]) = tu[j].name) => j < i

GlobalUnits == {tu \in UNION {[1..len -> GlobalDecls] : len \in 1..MaxGlobals} : VisitOrdered(tu)}

NextGlobals ==
    \/ LowerDecl
    \/ LowerEnd

InitGlobals ==
    /\ FreshFunction
    /\ globals = << >>
    /\ module = EmptyModule
    /\ global_expression_kind_tracker = << >>
    /\ limit = MaxGlobals
    /\ st = << >>
    /\ \E tu \in GlobalUnits, seed \in Seeds : lw = Run(tu, 1, seed, [k |-> "None"])

SpecGlobals == InitGlobals /\ [][NextGlobals]_vars

\* The declarations visited so far whose lowering gave no error.
LoweredDecls == {i \in DOMAIN lw.outcomes : lw.outcomes[i] = "ok"}

\* Whether the entry of a name is on a handle of the module's arena that
\* holds the declaration of that name.
HandleIsPresent(name, entry) ==
    CASE entry.k = "Function" ->
            entry.h \in DOMAIN module.functions /\ module.functions[entry.h].name = name
      [] entry.k = "Const" ->
            entry.h \in DOMAIN module.constants /\ module.constants[entry.h].name = name
      [] OTHER -> FALSE

\* Whether no function of the module calls itself or a function after it.
CallsGoBack ==
    \A h \in DOMAIN module.functions :
        \A i \in DOMAIN module.functions[h].body :
            module.functions[h].body[i].k = "Call" =>
                module.functions[h].body[i].function < h

\* What lowering the declaration the loop was at gave, when the declaration
\* is a function that calls its own name.
SelfCallOutcome ==
    \A i \in DOMAIN lw.outcomes :
        Callee(lw.tu[i]) = lw.tu[i].name =>
            IF map_standard_fun(lw.tu[i].name) # ""
            THEN /\ lw.outcomes[i] = "ok"
                 /\ \E e \in DOMAIN module.functions[globals[lw.tu[i].name].h].expressions :
                       module.functions[globals[lw.tu[i].name].h].expressions[e].k = "Math"
            ELSE lw.outcomes[i] = "UnknownIdent"

\* C30: throughout lower() the names of the globals map are those of the
\* declarations visited so far whose lowering gave no error, each on a
\* handle of the module that holds its declaration.  So the body of a
\* function is lowered without the function's own name: a call of that name
\* is the built-in of the name or fails with UnknownIdent, and no function
\* of the module has a Call statement to itself.
C30_GlobalsHoldLoweredDeclarations ==
    /\ DOMAIN globals = {lw.tu[i].name : i \in LoweredDecls}
    /\ \A name \in DOMAIN globals : HandleIsPresent(name, globals[name])
    /\ CallsGoBack
    /\ SelfCallOutcome

\* `fn abs(x: i32) -> i32 { return abs(x); }` was lowered with the built-in,
\* and `fn twice(x: i32) -> i32 { return abs(x); }` after it with a Call of
\* the function abs.
C30_Witness ==
    /\ lw.pc = "lowering"
    /\ Len(lw.outcomes) = 2
    /\ lw.tu[1].name = "abs"
    /\ lw.tu[2].name = "twice"
    /\ DOMAIN globals = {"abs", "twice"}
    /\ \A i \in DOMAIN module.functions[1].body : module.functions[1].body[i].k # "Call"
    /\ \E i \in DOMAIN module.functions[2].body :
          /\ module.functions[2].body[i].k = "Call"
          /\ module.functions[2].body[i].function = 1

====
